---------------------------- MODULE Spec2Model ----------------------------
(***************************************************************************)
(* Page exchange and tier rebalancing of linux-thp-migration:              *)
(*   mm/exchange.c, mm/exchange_page.c, mm/memory_manage.c.                *)
(*                                                                         *)
(* The module holds several specifications over one set of variables.     *)
(* Each specification drives one entry point of the code:                  *)
(*   SpecSeq      exchange_pages, one pair at a time                       *)
(*   SpecConcur   exchange_pages_concur, the batched path                  *)
(*   SpecArray    exchange_pages(2): do_pages_exchange and its chunks      *)
(*   SpecFlags    exchange_page_flags on two pages                         *)
(*   SpecSwap     the data exchange, exchange_page_mthread included        *)
(*   SpecManage   do_mm_manage on the pages of one memcg on two nodes      *)
(*   SpecSyscall  mm_manage(2) called by several threads                   *)
(* A specification leaves the variables of the other entry points at      *)
(* their idle values.                                                      *)
(***************************************************************************)
EXTENDS Integers, Sequences, FiniteSets, TLC

VARIABLES
    pc,         \* position of the (single) calling thread in its entry point
    page,       \* struct page of every page: [PageIds -> PageRec]
    page0,      \* the pages as they were when the entry point was called
    ptes,       \* translations: [virtual address -> [st, pg]]
    cmode,      \* enum migrate_mode of the call, the set of its bits
    pairs,      \* struct exchange_page_info records: [pair id -> record]
    exchange_list,   \* list of pair ids handed to exchange_pages(_concur)
    unmapped_list,   \* exchange_pages_concur: LIST_HEAD(unmapped_list)
    serialized_list, \* exchange_pages_concur: LIST_HEAD(serialized_list)
    todo,       \* the entries list_for_each_entry_safe has still to visit
    pass,       \* exchange_pages_concur: pass
    retry,      \* exchange_pages_concur: retry
    nr_failed,  \* exchange_pages: failed; exchange_pages_concur: nr_failed
    rc,         \* what the entry point returned
    faults,     \* how many more disturbances the environment may cause
    last,       \* the last unmap_and_exchange_anon call: pair, rc, pages before
    ret_pc,     \* where the caller of exchange_pages(_concur) goes on
    inj,        \* the disturbances so far, as <<what, pair, pass>>
    xpass,      \* per pair: the pass whose remap phase handled it, or -1
    req,        \* exchange_pages(2): nr_pages, the address arrays, the flags
    pm,         \* do_pages_exchange: the struct pages_to_node array
    status,     \* exchange_pages(2): the user's status array
    err_page_list,   \* do_exchange_page_array: LIST_HEAD(err_page_list)
    pp,         \* do_exchange_page_array: the entry pp points to
    chunk_start,     \* do_pages_exchange: chunk_start
    mem,        \* exchange_page_mthread: the bytes behind vfrom and vto
    mt,         \* exchange_page_mthread: its parameters, locals, work items
    mmp,        \* do_mm_manage: its parameters and locals
    lru,        \* the LRU lists of the two nodes, in scan order
    mlist,      \* do_mm_manage: the four lists of isolated pages
    moved,      \* pages (in base pages) migrated into and out of the to node
    callers     \* mm_manage(2): the position and result of every caller

pageVars == <<page, page0, ptes>>
listVars == <<pairs, exchange_list, unmapped_list, serialized_list, todo,
              pass, retry, nr_failed>>
histVars == <<last, inj, xpass>>
arrVars == <<req, pm, status, err_page_list, pp, chunk_start>>
swapVars == <<mem, mt>>
\* what the bulk request leaves alone, besides the exchange engines' state
mmVars == <<mmp, lru, mlist, moved>>
farVars == <<swapVars, mmVars, callers>>
\* what the exchange engines leave alone
outerVars == <<arrVars, farVars>>
vars == <<pc, pageVars, cmode, listVars, rc, faults, histVars, ret_pc,
          outerVars>>

(***************************************************************************)
(* errno values and MIGRATEPAGE_SUCCESS (include/uapi/asm-generic/errno-   *)
(* base.h and include/linux/migrate.h; used by value in the sources).      *)
(***************************************************************************)
MIGRATEPAGE_SUCCESS == 0
ENOENT == 2
EAGAIN == 11
ENOMEM == 12
EACCES == 13
EFAULT == 14
EBUSY == 16
ENODEV == 19

(***************************************************************************)
(* struct page.  Only what the exchange code reads or writes.             *)
(*   mapping     page->mapping: NullMapping, or <<kind, id>> with kind     *)
(*               "anon" (anon_vma | PAGE_MAPPING_ANON) or "file"           *)
(*   index       page->index                                               *)
(*   swapbacked  PG_swapbacked                                             *)
(*   content     the bytes of the page, as one token                       *)
(*   flags       the set of status flags that are set                      *)
(*   mem_cgroup  page->mem_cgroup                                          *)
(*   cpupid      last cpupid (NUMA hint)                                   *)
(*   huge        PageHuge(): a hugetlbfs page                              *)
(*   nr          hpage_nr_pages()                                          *)
(***************************************************************************)
NullMapping == <<"null", 0>>

\* struct page_flags: the thirteen bits exchange_page_flags saves
FlagNames ==
    {"error", "referenced", "uptodate", "active", "unevictable", "checked",
     "mappedtodisk", "dirty", "young", "idle", "swapcache", "writeback",
     "private"}

\* The flags exchange_page_flags sets again with a plain "if (saved) Set"
PlainSetFlags ==
    {"error", "referenced", "uptodate", "checked", "mappedtodisk", "dirty",
     "young", "idle"}

\* "if (active) SetPageActive else if (unevictable) SetPageUnevictable"
SetActiveOrUnevictable(saved) ==
    IF "active" \in saved THEN {"active"}
    ELSE IF "unevictable" \in saved THEN {"unevictable"}
    ELSE {}

\* The flags one page ends with, given the bits saved from the other page.
\* Every saved bit was cleared on the page before (swapcache by the later
\* ClearPageSwapCache); private and writeback are saved and cleared but
\* never set again.
FlagsSetFrom(saved) ==
    (saved \cap PlainSetFlags)
        \cup SetActiveOrUnevictable(saved)
        \cup (saved \cap {"swapcache"})

\* exchange_page_flags(to_page, from_page) on the page table pg
exchange_page_flags(pg, to_page, from_page) ==
    LET from_page_flags == pg[from_page].flags \cap FlagNames
        to_page_flags   == pg[to_page].flags \cap FlagNames
        from_cpupid     == pg[from_page].cpupid
        to_cpupid       == pg[to_page].cpupid
        from_memcg      == pg[from_page].mem_cgroup
        to_memcg        == pg[to_page].mem_cgroup
    IN  [pg EXCEPT
            ![to_page].flags      = (@ \ FlagNames)
                                        \cup FlagsSetFrom(from_page_flags),
            ![to_page].cpupid     = from_cpupid,
            ![to_page].mem_cgroup = from_memcg,
            ![from_page].flags      = (@ \ FlagNames)
                                        \cup FlagsSetFrom(to_page_flags),
            ![from_page].cpupid     = to_cpupid,
            ![from_page].mem_cgroup = to_memcg]


(***************************************************************************)
(* Page predicates of the kernel, on the page table pg and the             *)
(* translations pte.  pte[v] is the translation of virtual address v:      *)
(* st = "present" (a pte pointing at page pg), "migration" (a placeholder  *)
(* entry that refers to page pg) or "none".                                *)
(***************************************************************************)
PageAnon(pg, p) == pg[p].mapping[1] = "anon"

PageSwapCache(pg, p) == "swapcache" \in pg[p].flags

PageWriteback(pg, p) == "writeback" \in pg[p].flags

page_has_private(pg, p) == "private" \in pg[p].flags

\* page_mapping(): NULL for an anonymous page outside the swap cache, the
\* swap address space for one inside it, page->mapping for a file page
page_mapping(pg, p) ==
    IF PageAnon(pg, p)
    THEN (IF PageSwapCache(pg, p) THEN <<"swap", 0>> ELSE NullMapping)
    ELSE pg[p].mapping

page_mapped(pte, p) ==
    \E v \in DOMAIN pte : pte[v].st = "present" /\ pte[v].pg = p

HasMigrationPte(pte, p) ==
    \E v \in DOMAIN pte : pte[v].st = "migration" /\ pte[v].pg = p

\* try_to_unmap(page, TTU_MIGRATION|...): every pte of the page becomes a
\* migration entry; when it fails the page stays mapped
try_to_unmap(pte, p, fails) ==
    IF fails THEN pte
    ELSE [v \in DOMAIN pte |->
            IF pte[v].st = "present" /\ pte[v].pg = p
            THEN [st |-> "migration", pg |-> p] ELSE pte[v]]

\* What try_to_unmap returns to a caller that compares it with
\* MIGRATEPAGE_SUCCESS: 0 when the page is unmapped, a positive code when not
SWAP_FAIL == 2
try_to_unmap_rc(fails) == IF fails THEN SWAP_FAIL ELSE MIGRATEPAGE_SUCCESS

\* remove_migration_ptes(old, new, false)
remove_migration_ptes(pte, old, new) ==
    [v \in DOMAIN pte |->
        IF pte[v].st = "migration" /\ pte[v].pg = old
        THEN [st |-> "present", pg |-> new] ELSE pte[v]]

\* try_to_free_buffers(): releases the private metadata when it can
try_to_free_buffers(pg, p, released) ==
    IF released THEN [pg EXCEPT ![p].flags = @ \ {"private"}] ELSE pg

unlock_page(pg, p) == [pg EXCEPT ![p].locked = FALSE]

lock_page(pg, p) == [pg EXCEPT ![p].locked = TRUE]

\* page_get_anon_vma(): a reference on the anon_vma of a mapped anonymous
\* page, NULL (no reference) otherwise
page_get_anon_vma(pg, pte, p) ==
    IF PageAnon(pg, p) /\ page_mapped(pte, p)
    THEN [pg EXCEPT ![p].anon_ref = @ + 1] ELSE pg

TookAnonVma(pg, pte, p) == PageAnon(pg, p) /\ page_mapped(pte, p)

put_anon_vma(pg, p) == [pg EXCEPT ![p].anon_ref = @ - 1]

putback_lru_page(pg, p) ==
    [pg EXCEPT ![p].isolated = FALSE, ![p].putbacks = @ + 1]

\* exchange_highpage / exchange_huge_page: every word of the two pages is
\* swapped
exchange_highpage(pg, to_page, from_page) ==
    [pg EXCEPT ![to_page].content = pg[from_page].content,
               ![from_page].content = pg[to_page].content]

(***************************************************************************)
(* exchange_page_move_mapping.  pinned: the pages on which another party   *)
(* holds a reference, so that page_count() is not the expected 1.          *)
(***************************************************************************)
\* A variant that checks the count of from_page only after to_page was
\* given its new identity
move_mapping_late_check(pg, to_mapping, from_mapping, to_page, from_page, pinned) ==
    IF to_mapping = NullMapping /\ to_page \in pinned
    THEN [rc |-> -EAGAIN, pg |-> pg]
    ELSE IF from_mapping = NullMapping /\ from_page \in pinned
    THEN [rc |-> -EAGAIN,
          pg |-> [pg EXCEPT
                    ![to_page].index      = pg[from_page].index,
                    ![to_page].mapping    = pg[from_page].mapping,
                    ![to_page].swapbacked = pg[from_page].swapbacked]]
    ELSE [rc |-> MIGRATEPAGE_SUCCESS,
          pg |-> [pg EXCEPT
                    ![from_page].index      = pg[to_page].index,
                    ![from_page].mapping    = pg[to_page].mapping,
                    ![from_page].swapbacked = pg[to_page].swapbacked,
                    ![to_page].index      = pg[from_page].index,
                    ![to_page].mapping    = pg[from_page].mapping,
                    ![to_page].swapbacked = pg[from_page].swapbacked]]

exchange_page_move_mapping(pg, to_mapping, from_mapping, to_page, from_page, pinned) ==
    IF to_mapping = NullMapping /\ to_page \in pinned
    THEN [rc |-> -EAGAIN, pg |-> pg]
    ELSE IF from_mapping = NullMapping /\ from_page \in pinned
    THEN [rc |-> -EAGAIN, pg |-> pg]
    ELSE [rc |-> MIGRATEPAGE_SUCCESS,
          pg |-> [pg EXCEPT
                    ![from_page].index      = pg[to_page].index,
                    ![from_page].mapping    = pg[to_page].mapping,
                    ![from_page].swapbacked = pg[to_page].swapbacked,
                    ![to_page].index      = pg[from_page].index,
                    ![to_page].mapping    = pg[from_page].mapping,
                    ![to_page].swapbacked = pg[from_page].swapbacked]]

(***************************************************************************)
(* exchange_from_to_pages.  e is what the environment does during the     *)
(* call: e.pinned as above, e.mtfail when exchange_page_mthread returns an *)
(* error.  out is "ret" (returned rc) or "bug" (a BUG_ON fired).           *)
(***************************************************************************)
exchange_from_to_pages(pg, to_page, from_page, mode, e) ==
    LET to_page_mapping   == page_mapping(pg, to_page)
        from_page_mapping == page_mapping(pg, from_page)
        \* "rc = -EFAULT; if (mode & MIGRATE_MT) rc = exchange_page_mthread"
        mt_rc == IF "MT" \in mode
                 THEN (IF e.mtfail THEN -ENODEV ELSE 0) ELSE -EFAULT
        \* an engine that returns an error has swapped nothing
        mthread(p) == IF "MT" \in mode /\ ~e.mtfail
                      THEN exchange_highpage(p, to_page, from_page)
                      ELSE p
        \* "if (rc) { exchange_highpage(to_page, from_page); rc = 0; }"
        sync(p) == IF mt_rc # 0
                   THEN exchange_highpage(p, to_page, from_page)
                   ELSE p
        \* from the result of exchange_page_move_mapping on
        swapped(mm) ==
            IF mm.rc # MIGRATEPAGE_SUCCESS
            THEN [out |-> "ret", rc |-> mm.rc, pg |-> mm.pg]
            ELSE [out |-> "ret", rc |-> 0,
                  pg |-> exchange_page_flags(sync(mthread(mm.pg)), to_page,
                                             from_page)]
    IN  IF \/ from_page_mapping # NullMapping
           \/ to_page_mapping # NullMapping
           \/ PageWriteback(pg, from_page)
           \/ PageWriteback(pg, to_page)
        THEN [out |-> "bug", rc |-> -EBUSY, pg |-> pg]
        ELSE swapped(exchange_page_move_mapping(pg, to_page_mapping,
                         from_page_mapping, to_page, from_page, e.pinned))


(***************************************************************************)
(* unmap_and_exchange_anon(from_page, to_page, mode), as one step of the   *)
(* calling thread.  e is what the environment does during the call:        *)
(*   e.busy     pages whose lock another thread holds when it is tried     *)
(*   e.pinned   pages on which another party holds a reference             *)
(*   e.ttufail  pages that try_to_unmap cannot unmap                       *)
(*   e.released pages whose private metadata try_to_free_buffers releases  *)
(*   e.mtfail   the multi-threaded engine returns an error                 *)
(* out: "ret" (returned rc), "hang" (lock_page on a lock the caller itself *)
(* holds), "bug" (BUG_ON).                                                 *)
(***************************************************************************)
\* out_unlock: of unmap_and_exchange_anon
uea_out_unlock(pg, from_page, took_from) ==
    unlock_page(IF took_from THEN put_anon_vma(pg, from_page) ELSE pg,
                from_page)

\* out_unlock_both: of unmap_and_exchange_anon
uea_out_unlock_both(pg, from_page, to_page, took_from, took_to) ==
    uea_out_unlock(
        unlock_page(IF took_to THEN put_anon_vma(pg, to_page) ELSE pg, to_page),
        from_page, took_from)

\* from the point where both pages are locked
uea_locked(pg, pte, from_page, to_page, mode, e, took_from, took_to) ==
    IF pg[from_page].mapping = NullMapping /\ page_has_private(pg, from_page)
    THEN [out |-> "ret", rc |-> -EAGAIN, pte |-> pte,
          pg |-> uea_out_unlock_both(
                    try_to_free_buffers(pg, from_page, from_page \in e.released),
                    from_page, to_page, took_from, took_to)]
    ELSE
    LET from_page_was_mapped ==
            pg[from_page].mapping # NullMapping /\ page_mapped(pte, from_page)
        pte1 == IF from_page_was_mapped
                THEN try_to_unmap(pte, from_page, from_page \in e.ttufail)
                ELSE pte
    IN  IF pg[to_page].mapping = NullMapping /\ page_has_private(pg, to_page)
        THEN [out |-> "ret", rc |-> -EAGAIN, pte |-> pte1,
              pg |-> uea_out_unlock_both(
                        try_to_free_buffers(pg, to_page, to_page \in e.released),
                        from_page, to_page, took_from, took_to)]
        ELSE
        LET to_page_was_mapped ==
                pg[to_page].mapping # NullMapping /\ page_mapped(pte1, to_page)
            pte2 == IF to_page_was_mapped
                    THEN try_to_unmap(pte1, to_page, to_page \in e.ttufail)
                    ELSE pte1
            x == IF ~page_mapped(pte2, from_page) /\ ~page_mapped(pte2, to_page)
                 THEN exchange_from_to_pages(pg, to_page, from_page, mode, e)
                 ELSE [out |-> "ret", rc |-> -EAGAIN, pg |-> pg]
            ok == x.rc = MIGRATEPAGE_SUCCESS
            pte3 == IF from_page_was_mapped
                    THEN remove_migration_ptes(pte2, from_page,
                             IF ok THEN to_page ELSE from_page)
                    ELSE pte2
            pte4 == IF to_page_was_mapped
                    THEN remove_migration_ptes(pte3, to_page,
                             IF ok THEN from_page ELSE to_page)
                    ELSE pte3
        IN  IF x.out = "bug"
            THEN [out |-> "bug", rc |-> x.rc, pg |-> pg, pte |-> pte2]
            ELSE [out |-> "ret", rc |-> x.rc, pte |-> pte4,
                  pg |-> uea_out_unlock_both(x.pg, from_page, to_page,
                                              took_from, took_to)]

\* from the point where from_page is locked
uea_from_locked(pg, pte, from_page, to_page, mode, e) ==
    LET took_from == TookAnonVma(pg, pte, from_page)
        pg1 == page_get_anon_vma(pg, pte, from_page)
    IN  IF PageWriteback(pg, from_page)
        THEN [out |-> "bug", rc |-> -EAGAIN, pg |-> pg, pte |-> pte]
        ELSE IF pg1[to_page].locked \/ to_page \in e.busy
        THEN IF "ASYNC" \in mode
             THEN [out |-> "ret", rc |-> -EAGAIN, pte |-> pte,
                   pg |-> uea_out_unlock(pg1, from_page, took_from)]
             ELSE IF pg1[to_page].locked
             THEN [out |-> "hang", rc |-> -EAGAIN, pg |-> pg1, pte |-> pte]
             ELSE (IF PageWriteback(pg1, to_page)
                   THEN [out |-> "bug", rc |-> -EAGAIN, pg |-> pg1, pte |-> pte]
                   ELSE uea_locked(
                          page_get_anon_vma(lock_page(pg1, to_page), pte, to_page),
                          pte, from_page, to_page, mode, e, took_from,
                          TookAnonVma(pg1, pte, to_page)))
        ELSE IF PageWriteback(pg1, to_page)
        THEN [out |-> "bug", rc |-> -EAGAIN, pg |-> pg1, pte |-> pte]
        ELSE uea_locked(
                page_get_anon_vma(lock_page(pg1, to_page), pte, to_page),
                pte, from_page, to_page, mode, e, took_from,
                TookAnonVma(pg1, pte, to_page))

unmap_and_exchange_anon(pg, pte, from_page, to_page, mode, e) ==
    IF pg[from_page].locked \/ from_page \in e.busy
    THEN IF "ASYNC" \in mode
         THEN [out |-> "ret", rc |-> -EAGAIN, pg |-> pg, pte |-> pte]
         ELSE IF pg[from_page].locked
         THEN [out |-> "hang", rc |-> -EAGAIN, pg |-> pg, pte |-> pte]
         ELSE uea_from_locked(lock_page(pg, from_page), pte, from_page,
                              to_page, mode, e)
    ELSE uea_from_locked(lock_page(pg, from_page), pte, from_page, to_page,
                         mode, e)


(***************************************************************************)
(* Bounds of the model.                                                    *)
(***************************************************************************)
MaxPairs == 2       \* pairs in one exchange list
MaxFaults == 2      \* disturbances by the environment in one run

(***************************************************************************)
(* The pages a run starts with.  Page 2i-1 is the from page and page 2i    *)
(* the to page of pair i; virtual address p maps page p when the page is   *)
(* mapped.  A page is of one of these kinds:                               *)
(*   anon     a mapped anonymous base page                                 *)
(*   thp      a mapped anonymous transparent huge page                     *)
(*   hugetlb  a mapped hugetlbfs page (PageHuge)                           *)
(*   swap     a mapped anonymous page that is in the swap cache            *)
(*   file     a mapped page-cache page                                     *)
(*   orphan   a page with no mapping (truncated), no private metadata      *)
(*   bufs     a page with no mapping that still has private metadata       *)
(***************************************************************************)
HPAGE_PMD_NR == 512

PageKinds == {"anon", "thp", "hugetlb", "swap", "file", "orphan", "bufs"}

\* The pairs a list may hold, as <<kind of from_page, kind of to_page>>: the
\* two pages of a pair are of one size class
PairKinds ==
    {<<"anon", "anon">>, <<"thp", "thp">>, <<"hugetlb", "hugetlb">>,
     <<"swap", "anon">>, <<"anon", "swap">>, <<"file", "anon">>,
     <<"anon", "file">>, <<"bufs", "anon">>, <<"anon", "bufs">>,
     <<"orphan", "orphan">>}

MappedKinds == {"anon", "thp", "hugetlb", "swap", "file"}

KindMapping(kind, p) ==
    IF kind \in {"anon", "thp", "hugetlb", "swap"} THEN <<"anon", p>>
    ELSE IF kind = "file" THEN <<"file", p>>
    ELSE NullMapping

\* from pages (odd ids) and to pages (even ids) start with different flags
KindFlags(kind, p) ==
    {"uptodate"}
        \cup (IF p % 2 = 1 THEN {"dirty", "active"} ELSE {"referenced"})
        \cup (IF kind = "swap" THEN {"swapcache"} ELSE {})
        \cup (IF kind = "bufs" THEN {"private"} ELSE {})

MkPage(kind, p) ==
    [mapping    |-> KindMapping(kind, p),
     index      |-> 100 + p,
     swapbacked |-> kind \in {"anon", "thp", "swap"},
     content    |-> p,
     flags      |-> KindFlags(kind, p),
     mem_cgroup |-> p,
     cpupid     |-> p,
     huge       |-> kind = "hugetlb",
     nr         |-> IF kind \in {"thp", "hugetlb"} THEN HPAGE_PMD_NR ELSE 1,
     locked     |-> FALSE,
     isolated   |-> TRUE,
     putbacks   |-> 0,
     anon_ref   |-> 0]

MkPte(kind, p) ==
    IF kind \in MappedKinds THEN [st |-> "present", pg |-> p]
    ELSE [st |-> "none", pg |-> p]

FromPage(i) == 2 * i - 1
ToPage(i) == 2 * i

MkPair(i) ==
    [from_page |-> FromPage(i), to_page |-> ToPage(i),
     from_anon_vma |-> 0, to_anon_vma |-> 0]

Range(f) == {f[x] : x \in DOMAIN f}

\* enum migrate_mode values the exchange code is called with
Modes == {{"SYNC"}, {"SYNC", "MT"}, {"ASYNC"}}

\* What the environment may do during one single-pair call on from, to:
\* only disturbances the call can meet are drawn (a lock is held by another
\* thread, which releases it in the end, when the call asks for it; a mapped
\* page is not unmapped, metadata is released from a page that has some, the
\* engine fails when it is used)
Envs(pg, pte, from_page, to_page, md, budget) ==
    {e \in [busy : SUBSET {from_page, to_page},
            pinned : SUBSET {from_page, to_page},
            ttufail : SUBSET {p \in {from_page, to_page} : page_mapped(pte, p)},
            released : SUBSET {p \in {from_page, to_page} :
                                 page_has_private(pg, p)},
            mtfail : IF "MT" \in md THEN BOOLEAN ELSE {FALSE}] :
        Cardinality(e.busy) + Cardinality(e.pinned) + Cardinality(e.ttufail)
            + (IF e.mtfail THEN 1 ELSE 0) <= budget}

EnvCost(e) ==
    Cardinality(e.busy) + Cardinality(e.pinned) + Cardinality(e.ttufail)
        + (IF e.mtfail THEN 1 ELSE 0)

NoEnv == [busy |-> {}, pinned |-> {}, ttufail |-> {}, released |-> {},
          mtfail |-> FALSE]

NoCall ==
    [pair |-> 0, rc |-> 0, out |-> "none", pg |-> <<>>, pte |-> <<>>,
     env |-> NoEnv]

\* A list of n pairs of the given page kinds, all isolated, none locked
KindOf(kinds, p) == kinds[(p + 1) \div 2][2 - (p % 2)]

InitPages(n, kinds) ==
    /\ page = [p \in 1..(2 * n) |-> MkPage(KindOf(kinds, p), p)]
    /\ page0 = page
    /\ ptes = [p \in 1..(2 * n) |-> MkPte(KindOf(kinds, p), p)]
    /\ pairs = [i \in 1..n |-> MkPair(i)]
    /\ exchange_list = [i \in 1..n |-> i]

\* the threaded engine is not running
SwapIdle ==
    /\ mem = [vfrom |-> <<>>, vto |-> <<>>]
    /\ mt = [limit_mt_num |-> 0, cpus |-> 0, nr_pages |-> 0, use_mt |-> FALSE,
             total_mt_num |-> 0, chunk_size |-> 0, pending |-> {}]

\* no rebalance is running
ManageIdle ==
    /\ mmp = [flags |-> {}]
    /\ lru = <<>>
    /\ mlist = <<>>
    /\ moved = [in |-> 0, out |-> 0]

\* the engine, the rebalancer and mm_manage(2) are idle
FarIdle == SwapIdle /\ ManageIdle /\ callers = <<>>

\* no bulk request is being served
ArrIdle ==
    /\ req = [nr_pages |-> 0, kinds |-> <<>>, flags |-> {}]
    /\ pm = <<>>
    /\ status = <<>>
    /\ err_page_list = <<>>
    /\ pp = 0
    /\ chunk_start = 0

(***************************************************************************)
(* exchange_pages(exchange_list, mode, reason): one step per pair.         *)
(***************************************************************************)
InitSeq ==
    /\ ArrIdle
    /\ FarIdle
    /\ \E n \in 1..MaxPairs : \E kinds \in [1..n -> PairKinds] :
            InitPages(n, kinds)
    /\ cmode \in Modes
    /\ pc = "exchange_pages"
    /\ todo = exchange_list
    /\ unmapped_list = <<>>
    /\ serialized_list = <<>>
    /\ pass = 0
    /\ retry = 0
    /\ nr_failed = 0
    /\ rc = 0
    /\ faults = MaxFaults
    /\ last = NoCall
    /\ ret_pc = "done"
    /\ inj = {}
    /\ xpass = [i \in DOMAIN pairs |-> -1]

\* one iteration of the loop of exchange_pages
exchange_pages_pair ==
    /\ UNCHANGED outerVars
    /\ pc = "exchange_pages"
    /\ todo # <<>>
    /\ LET one_pair  == pairs[Head(todo)]
           from_page == one_pair.from_page
           to_page   == one_pair.to_page
       IN  IF \/ page_mapping(page, from_page) # NullMapping
              \/ page_mapping(page, to_page) # NullMapping
           THEN /\ nr_failed' = nr_failed + 1
                /\ page' = putback_lru_page(putback_lru_page(page, from_page),
                                            to_page)
                /\ UNCHANGED <<ptes, faults, last, pc>>
           ELSE \E e \in Envs(page, ptes, from_page, to_page, cmode, faults) :
                LET r == unmap_and_exchange_anon(page, ptes, from_page, to_page,
                                                 cmode, e)
                IN  /\ faults' = faults - EnvCost(e)
                    /\ last' = [pair |-> Head(todo), rc |-> r.rc, out |-> r.out,
                                pg |-> page, pte |-> ptes,
                                env |-> e]
                    /\ ptes' = r.pte
                    /\ IF r.out = "ret"
                       THEN /\ page' = putback_lru_page(
                                         putback_lru_page(r.pg, from_page),
                                         to_page)
                            /\ nr_failed' =
                                 IF r.rc # MIGRATEPAGE_SUCCESS
                                 THEN nr_failed + 1 ELSE nr_failed
                            /\ pc' = pc
                       ELSE /\ page' = r.pg
                            /\ nr_failed' = nr_failed
                            /\ pc' = r.out
    /\ todo' = Tail(todo)
    /\ UNCHANGED <<page0, cmode, pairs, exchange_list, unmapped_list,
                   serialized_list, pass, retry, rc, ret_pc, inj, xpass>>

\* "return failed;"
exchange_pages_return ==
    /\ UNCHANGED outerVars
    /\ pc = "exchange_pages"
    /\ todo = <<>>
    /\ rc' = nr_failed
    /\ pc' = ret_pc
    /\ UNCHANGED <<pageVars, cmode, listVars, faults, histVars, ret_pc>>

NextSeq == exchange_pages_pair \/ exchange_pages_return

SpecSeq == InitSeq /\ [][NextSeq]_vars


(***************************************************************************)
(* Claims about the single-pair path (SpecSeq).                            *)
(***************************************************************************)
LastPages == {pairs[last.pair].from_page, pairs[last.pair].to_page}

LastFailed == last.out = "ret" /\ last.rc # MIGRATEPAGE_SUCCESS

SameContentIdentity(a, b) ==
    /\ a.content = b.content
    /\ a.mapping = b.mapping
    /\ a.index = b.index
    /\ a.swapbacked = b.swapbacked

C20_FailureRestoresTranslations ==
    LastFailed =>
        \A v \in DOMAIN ptes :
            last.pte[v].pg \in LastPages => ptes[v] = last.pte[v]


(***************************************************************************)
(* exchange_pages_concur: the batched path.                                *)
(***************************************************************************)
\* list_move(&one_pair->list, head): the entry leaves its list and becomes
\* the first entry of the other
ListDel(list, i) == SelectSeq(list, LAMBDA x : x # i)
ListAddHead(list, i) == <<i>> \o list

\* unmap_pair_pages_concur(one_pair, force, mode).  e.busy, e.ttufail and
\* e.released as for unmap_and_exchange_anon.  On rc = -EAGAIN reached by a
\* goto the locks taken are dropped; on a return of try_to_unmap's value
\* both pages stay locked.
\* A variant of out_unlock that drops the anon_vma reference and leaves the
\* page locked
uppc_out_put_only(pg, from_page, took_from) ==
    IF took_from THEN put_anon_vma(pg, from_page) ELSE pg

uppc_out_unlock(pg, from_page, took_from) ==
    unlock_page(IF took_from THEN put_anon_vma(pg, from_page) ELSE pg,
                from_page)

uppc_out_unlock_both(pg, from_page, to_page, took_from, took_to) ==
    uppc_out_unlock(
        unlock_page(IF took_to THEN put_anon_vma(pg, to_page) ELSE pg, to_page),
        from_page, took_from)

uppc_locked(pg, pte, one_pair, e, took_from, took_to) ==
    LET from_page == one_pair.from_page
        to_page   == one_pair.to_page
    IN  IF pg[from_page].mapping = NullMapping /\ page_has_private(pg, from_page)
        THEN [out |-> "ret", rc |-> -EAGAIN, pte |-> pte, pair |-> one_pair,
              pg |-> uppc_out_unlock_both(
                        try_to_free_buffers(pg, from_page,
                                            from_page \in e.released),
                        from_page, to_page, took_from, took_to)]
        ELSE
        LET from_ttu == pg[from_page].mapping # NullMapping
            rc1  == IF from_ttu THEN try_to_unmap_rc(from_page \in e.ttufail)
                    ELSE -EAGAIN
            pte1 == IF from_ttu
                    THEN try_to_unmap(pte, from_page, from_page \in e.ttufail)
                    ELSE pte
        IN  IF pg[to_page].mapping = NullMapping /\ page_has_private(pg, to_page)
            THEN [out |-> "ret", rc |-> rc1, pte |-> pte1, pair |-> one_pair,
                  pg |-> uppc_out_unlock_both(
                            try_to_free_buffers(pg, to_page,
                                                to_page \in e.released),
                            from_page, to_page, took_from, took_to)]
            ELSE
            LET to_ttu == pg[to_page].mapping # NullMapping
                rc2  == IF to_ttu THEN try_to_unmap_rc(to_page \in e.ttufail)
                        ELSE rc1
                pte2 == IF to_ttu
                        THEN try_to_unmap(pte1, to_page, to_page \in e.ttufail)
                        ELSE pte1
            IN  [out |-> "ret", rc |-> rc2, pte |-> pte2, pair |-> one_pair,
                 pg |-> pg]

uppc_from_locked(pg, pte, one_pair, force, mode, e) ==
    LET from_page == one_pair.from_page
        to_page   == one_pair.to_page
        took_from == TookAnonVma(pg, pte, from_page)
        pg1   == page_get_anon_vma(pg, pte, from_page)
        pair1 == IF PageAnon(pg, from_page)
                 THEN [one_pair EXCEPT !.from_anon_vma =
                          IF took_from THEN from_page ELSE 0]
                 ELSE one_pair
        took_to == TookAnonVma(pg1, pte, to_page)
        pg2   == page_get_anon_vma(lock_page(pg1, to_page), pte, to_page)
        pair2 == IF PageAnon(pg1, to_page)
                 THEN [pair1 EXCEPT !.to_anon_vma =
                          IF took_to THEN to_page ELSE 0]
                 ELSE pair1
    IN  IF PageWriteback(pg, from_page)
        THEN [out |-> "bug", rc |-> -EAGAIN, pg |-> pg, pte |-> pte,
              pair |-> one_pair]
        ELSE IF (pg1[to_page].locked \/ to_page \in e.busy)
                /\ (~force \/ "ASYNC" \in mode)
        THEN [out |-> "ret", rc |-> -EAGAIN, pte |-> pte, pair |-> pair1,
              pg |-> uppc_out_unlock(pg1, from_page, took_from)]
        ELSE IF pg1[to_page].locked
        THEN [out |-> "hang", rc |-> -EAGAIN, pg |-> pg1, pte |-> pte,
              pair |-> pair1]
        ELSE IF PageWriteback(pg1, to_page)
        THEN [out |-> "bug", rc |-> -EAGAIN, pg |-> pg1, pte |-> pte,
              pair |-> pair1]
        ELSE uppc_locked(pg2, pte, pair2, e, took_from, took_to)

\* A variant of unmap_pair_pages_concur that never waits for a lock
unmap_pair_try_only(pg, pte, one_pair, force, mode, e) ==
    IF pg[one_pair.from_page].locked \/ one_pair.from_page \in e.busy
    THEN [out |-> "ret", rc |-> -EAGAIN, pg |-> pg, pte |-> pte,
          pair |-> one_pair]
    ELSE uppc_from_locked(lock_page(pg, one_pair.from_page), pte, one_pair,
                          FALSE, mode, e)

unmap_pair_pages_concur(pg, pte, one_pair, force, mode, e) ==
    LET from_page == one_pair.from_page
    IN  IF (pg[from_page].locked \/ from_page \in e.busy)
           /\ (~force \/ "ASYNC" \in mode)
        THEN [out |-> "ret", rc |-> -EAGAIN, pg |-> pg, pte |-> pte,
              pair |-> one_pair]
        ELSE IF pg[from_page].locked
        THEN [out |-> "hang", rc |-> -EAGAIN, pg |-> pg, pte |-> pte,
              pair |-> one_pair]
        ELSE uppc_from_locked(lock_page(pg, from_page), pte, one_pair, force,
                              mode, e)

\* What the environment may do during one unmap_pair_pages_concur
UnmapEnvs(pg, pte, one_pair, budget) ==
    LET both == {one_pair.from_page, one_pair.to_page}
    IN  {e \in [busy : SUBSET both,
                ttufail : SUBSET {p \in both : page_mapped(pte, p)},
                released : SUBSET {p \in both : page_has_private(pg, p)}] :
            Cardinality(e.busy) + Cardinality(e.ttufail) <= budget}

\* exchange_page_mapping_concur(&unmapped_list, exchange_list, mode): the
\* entries of the unmapped list in order.  An entry whose page handles were
\* cleared by an earlier remap phase is dereferenced as a null page.
RECURSIVE exchange_page_mapping_concur(_, _, _, _, _)
exchange_page_mapping_concur(pg, prs, todo_list, exch, pinned) ==
    IF todo_list = <<>>
    THEN [out |-> "ret", pg |-> pg, exchange_list |-> exch, failed |-> {}]
    ELSE
    LET i         == Head(todo_list)
        from_page == prs[i].from_page
        to_page   == prs[i].to_page
    IN  IF from_page = 0 \/ to_page = 0
        THEN [out |-> "oops", pg |-> pg, exchange_list |-> exch, failed |-> {}]
        ELSE IF \/ page_mapping(pg, from_page) # NullMapping
                \/ page_mapping(pg, to_page) # NullMapping
                \/ PageWriteback(pg, from_page)
                \/ PageWriteback(pg, to_page)
        THEN [out |-> "bug", pg |-> pg, exchange_list |-> exch, failed |-> {}]
        ELSE
        LET mm == exchange_page_move_mapping(pg, page_mapping(pg, to_page),
                      page_mapping(pg, from_page), to_page, from_page, pinned)
            rest == exchange_page_mapping_concur(mm.pg, prs, Tail(todo_list),
                        IF mm.rc # 0 THEN ListAddHead(exch, i) ELSE exch,
                        pinned)
        IN  [rest EXCEPT !.failed =
                IF mm.rc # 0 THEN @ \cup {i} ELSE @]

\* the content and flag swap of exchange_page_data_concur over a list
RECURSIVE SwapContentAll(_, _, _)
SwapContentAll(pg, prs, list) ==
    IF list = <<>> THEN pg
    ELSE SwapContentAll(
            exchange_highpage(pg, prs[Head(list)].to_page,
                              prs[Head(list)].from_page),
            prs, Tail(list))

RECURSIVE SwapFlagsAll(_, _, _)
SwapFlagsAll(pg, prs, list) ==
    IF list = <<>> THEN pg
    ELSE SwapFlagsAll(
            exchange_page_flags(pg, prs[Head(list)].to_page,
                                prs[Head(list)].from_page),
            prs, Tail(list))

\* exchange_page_data_concur(&unmapped_list, mode).  nomem: a page array
\* cannot be allocated (an array of no entries always can); mtfail:
\* exchange_page_lists_mthread returns an error.
\* With MIGRATE_MT and an empty list the list engine reads the first entry
\* of a zero-length array.
exchange_page_data_concur(pg, prs, list, mode, nomem, mtfail) ==
    IF nomem THEN [out |-> "ret", rc |-> -ENOMEM, pg |-> pg]
    ELSE IF "MT" \in mode /\ list = <<>>
    THEN [out |-> "oops", rc |-> -EFAULT, pg |-> pg]
    ELSE
    \* "rc = -EFAULT; if (mode & MIGRATE_MT) rc = exchange_page_lists_mthread"
    \* (an engine that returns an error has swapped nothing), then "if (rc)"
    \* the synchronous swap of every pair, then the flags of every pair
    LET mt_rc == IF "MT" \in mode THEN (IF mtfail THEN -ENODEV ELSE 0)
                 ELSE -EFAULT
        pg1 == IF "MT" \in mode /\ ~mtfail THEN SwapContentAll(pg, prs, list)
               ELSE pg
        pg2 == IF mt_rc # 0 THEN SwapContentAll(pg1, prs, list) ELSE pg1
    IN  [out |-> "ret", rc |-> mt_rc, pg |-> SwapFlagsAll(pg2, prs, list)]

\* remove_migration_ptes_concur(&unmapped_list)
RECURSIVE remove_migration_ptes_concur(_, _, _, _)
remove_migration_ptes_concur(pg, pte, prs, list) ==
    IF list = <<>> THEN [pg |-> pg, pte |-> pte, pairs |-> prs]
    ELSE
    LET i  == Head(list)
        it == prs[i]
        pte1 == remove_migration_ptes(
                    remove_migration_ptes(pte, it.from_page, it.to_page),
                    it.to_page, it.from_page)
        pg1 == unlock_page(pg, it.from_page)
        pg2 == IF it.from_anon_vma # 0 THEN put_anon_vma(pg1, it.from_anon_vma)
               ELSE pg1
        pg3 == unlock_page(pg2, it.to_page)
        pg4 == IF it.to_anon_vma # 0 THEN put_anon_vma(pg3, it.to_anon_vma)
               ELSE pg3
        pg5 == putback_lru_page(putback_lru_page(pg4, it.from_page), it.to_page)
    IN  remove_migration_ptes_concur(pg5, pte1,
            [prs EXCEPT ![i].from_page = 0, ![i].to_page = 0], Tail(list))


PageHuge(pg, p) == pg[p].huge

InitConcur ==
    /\ ArrIdle
    /\ FarIdle
    /\ \E n \in 1..MaxPairs : \E kinds \in [1..n -> PairKinds] :
            InitPages(n, kinds)
    /\ cmode \in Modes
    /\ pc = "concur_pass"
    /\ todo = <<>>
    /\ unmapped_list = <<>>
    /\ serialized_list = <<>>
    /\ pass = 0
    /\ retry = 1
    /\ nr_failed = 0
    /\ rc = 0
    /\ faults = MaxFaults
    /\ last = NoCall
    /\ ret_pc = "done"
    /\ inj = {}
    /\ xpass = [i \in DOMAIN pairs |-> -1]

\* "for (pass = 0; pass < 10 && retry; pass++) { retry = 0;"
concur_pass_begin ==
    /\ UNCHANGED outerVars
    /\ pc = "concur_pass"
    /\ pass < 10 /\ retry # 0
    /\ retry' = 0
    /\ todo' = exchange_list
    /\ pc' = "concur_unmap"
    /\ UNCHANGED <<pageVars, cmode, pairs, exchange_list, unmapped_list,
                   serialized_list, pass, nr_failed, rc, faults, histVars,
                   ret_pc>>

\* A variant of concur_pass_end that leaves the pairs still retried out of
\* nr_failed
concur_pass_end_uncounted ==
    /\ UNCHANGED outerVars
    /\ pc = "concur_pass"
    /\ ~(pass < 10 /\ retry # 0)
    /\ todo' = serialized_list
    /\ pc' = "concur_serial"
    /\ UNCHANGED <<pageVars, cmode, pairs, exchange_list, unmapped_list,
                   serialized_list, pass, retry, nr_failed, rc, faults,
                   histVars, ret_pc>>

\* the loop is left: "nr_failed += retry;" and on to the serialized list
concur_pass_end ==
    /\ UNCHANGED outerVars
    /\ pc = "concur_pass"
    /\ ~(pass < 10 /\ retry # 0)
    /\ nr_failed' = nr_failed + retry
    /\ todo' = serialized_list
    /\ pc' = "concur_serial"
    /\ UNCHANGED <<pageVars, cmode, pairs, exchange_list, unmapped_list,
                   serialized_list, pass, retry, rc, faults, histVars, ret_pc>>

\* one iteration of the unmap loop: classification, unmap_pair_pages_concur
\* and the switch on its result
concur_unmap_pair ==
    /\ UNCHANGED outerVars
    /\ pc = "concur_unmap"
    /\ todo # <<>>
    /\ LET i == Head(todo)
           one_pair == pairs[i]
           force == pass > 2
           diverted ==
               \/ PageHuge(page, one_pair.from_page)
               \/ PageHuge(page, one_pair.to_page)
               \/ page_mapping(page, one_pair.from_page) # NullMapping
               \/ page_mapping(page, one_pair.from_page) # NullMapping
       IN  IF diverted
           THEN /\ exchange_list' = ListDel(exchange_list, i)
                /\ serialized_list' = ListAddHead(serialized_list, i)
                /\ UNCHANGED <<page, ptes, pairs, unmapped_list, retry,
                               nr_failed, faults, inj, pc>>
           ELSE \E e \in UnmapEnvs(page, ptes, one_pair, faults) :
                LET r == unmap_pair_pages_concur(page, ptes, one_pair, force,
                                                 cmode, e)
                IN  /\ faults' = faults - Cardinality(e.busy)
                                        - Cardinality(e.ttufail)
                    /\ inj' = inj \cup {<<"busy", i, pass>> : p \in e.busy}
                                  \cup {<<"ttufail", i, pass>> : p \in e.ttufail}
                    /\ page' = r.pg
                    /\ ptes' = r.pte
                    /\ pairs' = [pairs EXCEPT ![i] = r.pair]
                    /\ IF r.out # "ret"
                       THEN /\ pc' = r.out
                            /\ UNCHANGED <<exchange_list, unmapped_list,
                                           serialized_list, retry, nr_failed>>
                       ELSE /\ pc' = pc
                            /\ CASE r.rc = -ENODEV ->
                                      /\ exchange_list' = ListDel(exchange_list, i)
                                      /\ serialized_list' =
                                            ListAddHead(serialized_list, i)
                                      /\ UNCHANGED <<unmapped_list, retry,
                                                     nr_failed>>
                                 [] r.rc = -EAGAIN ->
                                      /\ retry' = retry + 1
                                      /\ UNCHANGED <<exchange_list,
                                                     unmapped_list,
                                                     serialized_list, nr_failed>>
                                 [] r.rc = MIGRATEPAGE_SUCCESS ->
                                      /\ exchange_list' = ListDel(exchange_list, i)
                                      /\ unmapped_list' =
                                            ListAddHead(unmapped_list, i)
                                      /\ UNCHANGED <<serialized_list, retry,
                                                     nr_failed>>
                                 [] OTHER ->
                                      /\ exchange_list' = ListDel(exchange_list, i)
                                      /\ serialized_list' =
                                            ListAddHead(serialized_list, i)
                                      /\ nr_failed' = nr_failed + 1
                                      /\ UNCHANGED <<unmapped_list, retry>>
    /\ todo' = Tail(todo)
    /\ UNCHANGED <<page0, cmode, pass, rc, last, xpass, ret_pc>>

\* the pages whose page_count() exceeds the expected one because a pte still
\* maps them
StillMapped(pte, ps) == {p \in ps : page_mapped(pte, p)}

FreshPages(list) ==
    UNION {{pairs[list[k]].from_page, pairs[list[k]].to_page} \ {0} :
             k \in DOMAIN list}

\* exchange_page_mapping_concur(&unmapped_list, exchange_list, mode)
concur_commit ==
    /\ UNCHANGED outerVars
    /\ pc = "concur_unmap"
    /\ todo = <<>>
    /\ \E pinned \in SUBSET FreshPages(unmapped_list) :
        /\ Cardinality(pinned) <= faults
        /\ LET r == exchange_page_mapping_concur(page, pairs, unmapped_list,
                        exchange_list,
                        pinned \cup StillMapped(ptes, FreshPages(unmapped_list)))
           IN  /\ page' = r.pg
               /\ exchange_list' = r.exchange_list
               /\ unmapped_list' =
                     SelectSeq(unmapped_list, LAMBDA x : x \notin r.failed)
               /\ pc' = IF r.out = "ret" THEN "concur_data" ELSE r.out
        /\ faults' = faults - Cardinality(pinned)
        /\ inj' = inj \cup {<<"pinned", (p + 1) \div 2, pass>> : p \in pinned}
    /\ UNCHANGED <<page0, ptes, cmode, pairs, serialized_list, todo, pass,
                   retry, nr_failed, rc, last, xpass, ret_pc>>

\* exchange_page_data_concur(&unmapped_list, mode)
concur_data ==
    /\ UNCHANGED outerVars
    /\ pc = "concur_data"
    /\ \E nomem \in (IF unmapped_list # <<>> THEN BOOLEAN ELSE {FALSE}) :
       \E mtfail \in (IF "MT" \in cmode /\ ~nomem THEN BOOLEAN ELSE {FALSE}) :
        /\ (IF nomem THEN 1 ELSE 0) + (IF mtfail THEN 1 ELSE 0) <= faults
        /\ LET r == exchange_page_data_concur(page, pairs, unmapped_list,
                                              cmode, nomem, mtfail)
           IN  /\ page' = r.pg
               /\ pc' = IF r.out = "ret" THEN "concur_remap" ELSE r.out
        /\ faults' = faults - (IF nomem THEN 1 ELSE 0)
                            - (IF mtfail THEN 1 ELSE 0)
        /\ inj' = inj \cup (IF nomem THEN {<<"nomem", 0, pass>>} ELSE {})
                      \cup (IF mtfail THEN {<<"mtfail", 0, pass>>} ELSE {})
    /\ UNCHANGED <<page0, ptes, cmode, listVars, rc, last, xpass, ret_pc>>

\* remove_migration_ptes_concur(&unmapped_list), and "pass++"
concur_remap ==
    /\ UNCHANGED outerVars
    /\ pc = "concur_remap"
    /\ LET r == remove_migration_ptes_concur(page, ptes, pairs, unmapped_list)
       IN  /\ page' = r.pg
           /\ ptes' = r.pte
           /\ pairs' = r.pairs
    /\ xpass' = [i \in DOMAIN xpass |->
                   IF i \in Range(unmapped_list) /\ pairs[i].from_page # 0
                   THEN pass ELSE xpass[i]]
    /\ pass' = pass + 1
    /\ pc' = "concur_pass"
    /\ UNCHANGED <<page0, cmode, exchange_list, unmapped_list,
                   serialized_list, todo, retry, nr_failed, rc, faults, last,
                   inj, ret_pc>>

\* one iteration of the loop over the serialized list
concur_serial_pair ==
    /\ UNCHANGED outerVars
    /\ pc = "concur_serial"
    /\ todo # <<>>
    /\ LET i         == Head(todo)
           from_page == pairs[i].from_page
           to_page   == pairs[i].to_page
       IN  IF \/ page_mapping(page, from_page) # NullMapping
              \/ page_mapping(page, to_page) # NullMapping
           THEN /\ nr_failed' = nr_failed + 1
                /\ page' = putback_lru_page(putback_lru_page(page, from_page),
                                            to_page)
                /\ UNCHANGED <<ptes, faults, last, inj, pc>>
           ELSE \E e \in Envs(page, ptes, from_page, to_page, cmode, faults) :
                LET r == unmap_and_exchange_anon(page, ptes, from_page, to_page,
                                                 cmode, e)
                IN  /\ faults' = faults - EnvCost(e)
                    /\ inj' = inj \cup {<<"serial", i, -1>> : x \in
                                           IF EnvCost(e) > 0 THEN {1} ELSE {}}
                    /\ last' = [pair |-> i, rc |-> r.rc, out |-> r.out,
                                pg |-> page, pte |-> ptes,
                                env |-> e]
                    /\ ptes' = r.pte
                    /\ IF r.out = "ret"
                       THEN /\ page' = putback_lru_page(
                                         putback_lru_page(r.pg, from_page),
                                         to_page)
                            /\ nr_failed' =
                                 IF r.rc # MIGRATEPAGE_SUCCESS
                                 THEN nr_failed + 1 ELSE nr_failed
                            /\ pc' = pc
                       ELSE /\ page' = r.pg
                            /\ nr_failed' = nr_failed
                            /\ pc' = r.out
    /\ todo' = Tail(todo)
    /\ UNCHANGED <<page0, cmode, pairs, exchange_list, unmapped_list,
                   serialized_list, pass, retry, rc, xpass, ret_pc>>

\* "out:" the lists are spliced back and "return nr_failed?-EFAULT:0;"
concur_return ==
    /\ UNCHANGED outerVars
    /\ pc = "concur_serial"
    /\ todo = <<>>
    /\ exchange_list' = serialized_list \o unmapped_list \o exchange_list
    /\ unmapped_list' = <<>>
    /\ serialized_list' = <<>>
    /\ rc' = IF nr_failed # 0 THEN -EFAULT ELSE 0
    /\ pc' = ret_pc
    /\ UNCHANGED <<pageVars, cmode, pairs, todo, pass, retry, nr_failed,
                   faults, histVars, ret_pc>>

NextConcur ==
    \/ concur_pass_begin
    \/ concur_pass_end
    \/ concur_unmap_pair
    \/ concur_commit
    \/ concur_data
    \/ concur_remap
    \/ concur_serial_pair
    \/ concur_return

SpecConcur == InitConcur /\ [][NextConcur]_vars


(***************************************************************************)
(* exchange_pages(2): do_pages_exchange and do_exchange_page_array.        *)
(* A user address is modelled by what find_vma/follow_page/isolation make  *)
(* of it:                                                                  *)
(*   "null"    the address 0                                               *)
(*   "bad"     no migratable vma covers it                 (-EFAULT)       *)
(*   "absent"  follow_page finds no page                   (-ENOENT)       *)
(*   "shared"  page_mapcount > 1                (-EACCES unless MOVE_ALL)  *)
(*   "busy"    isolate_lru_page fails                      (-EBUSY)        *)
(*   "anon", "file", "thp", "hugetlb"  a page of that kind, on the LRU     *)
(* Entry j of the request names pages 2j-1 (from) and 2j (to).             *)
(***************************************************************************)
MaxReq == 2

PAGE_SIZE == 4096
SIZEOF_PAGES_TO_NODE == 32

EntryKinds ==
    {<<"anon", "anon">>, <<"null", "anon">>, <<"anon", "null">>,
     <<"bad", "anon">>, <<"anon", "bad">>, <<"absent", "anon">>,
     <<"shared", "anon">>, <<"anon", "busy">>, <<"thp", "anon">>,
     <<"file", "anon">>, <<"hugetlb", "hugetlb">>}

\* what an uninitialised int of the pm page may hold
Garbage == {0, 77}

RequestFlags == SUBSET {"MOVE_ALL", "MOVE_MT", "MOVE_CONCUR"}

AddrKind(j, side) == req.kinds[j][side]

\* the page behind a user address: a page of its kind where it names one
AddrPageKind(k) == IF k \in PageKinds THEN k ELSE "anon"

UserAddr(kinds, j, side) ==
    IF kinds[j][side] = "null" THEN 0 ELSE 2 * j - 2 + side

\* The validation of one address, lines 923-979 (from) and 988-1044 (to):
\* the error code, and whether the page was put on err_page_list
validate_addr(k, migrate_all) ==
    IF k = "bad" THEN [err |-> -EFAULT, isolated |-> FALSE]
    ELSE IF k = "absent" THEN [err |-> -ENOENT, isolated |-> FALSE]
    ELSE IF k = "shared" /\ ~migrate_all
    THEN [err |-> -EACCES, isolated |-> FALSE]
    ELSE IF k = "busy" THEN [err |-> -EBUSY, isolated |-> FALSE]
    ELSE [err |-> 0, isolated |-> TRUE]

isolate_lru_page(pg, p) == [pg EXCEPT ![p].isolated = TRUE]

RECURSIVE putback_movable_pages(_, _)
putback_movable_pages(pg, list) ==
    IF list = <<>> THEN pg
    ELSE putback_movable_pages(putback_lru_page(pg, Head(list)), Tail(list))

PageTransHuge(pg, p) == ~pg[p].huge /\ pg[p].nr > 1

InitArray ==
    /\ \E n \in 1..MaxReq : \E kinds \in [1..n -> EntryKinds] :
       \E fl \in RequestFlags : \E g \in [1..(n + 1) -> Garbage] :
        /\ req = [nr_pages |-> n, kinds |-> kinds, flags |-> fl]
        /\ pm = [j \in 1..(n + 1) |->
                    [from_addr |-> 0, from_status |-> g[j],
                     to_addr |-> 0, to_status |-> g[j]]]
        /\ status = [j \in 1..n |-> [written |-> FALSE, v |-> 0]]
        /\ page = [p \in 1..(2 * n) |->
                     [MkPage(AddrPageKind(KindOf(kinds, p)), p)
                        EXCEPT !.isolated = FALSE]]
        /\ ptes = [p \in 1..(2 * n) |->
                     MkPte(AddrPageKind(KindOf(kinds, p)), p)]
        /\ pairs = [i \in 1..n |-> MkPair(i)]
        /\ xpass = [i \in 1..n |-> -1]
    /\ page0 = page
    /\ cmode = {"SYNC"}
    /\ exchange_list = <<>>
    /\ unmapped_list = <<>>
    /\ serialized_list = <<>>
    /\ todo = <<>>
    /\ pass = 0
    /\ retry = 0
    /\ nr_failed = 0
    /\ rc = 0
    /\ faults = MaxFaults
    /\ last = NoCall
    /\ ret_pc = "array_ret"
    /\ inj = {}
    /\ err_page_list = <<>>
    /\ pp = 0
    /\ chunk_start = 0
    /\ FarIdle
    /\ pc = "pages_exchange"

\* "chunk_nr_pages = (PAGE_SIZE / sizeof(struct pages_to_node)) - 1", cut to
\* what is left of the request
chunk_nr_pages ==
    LET full == (PAGE_SIZE \div SIZEOF_PAGES_TO_NODE) - 1
    IN  IF chunk_start + full > req.nr_pages
        THEN req.nr_pages - chunk_start ELSE full

\* One chunk is read from user space (lines 1139-1159) and
\* do_exchange_page_array is entered.  A get_user that fails ends the call.
pages_exchange_chunk ==
    /\ UNCHANGED farVars
    /\ pc = "pages_exchange"
    /\ chunk_start < req.nr_pages
    /\ \E efault \in (IF faults > 0 THEN BOOLEAN ELSE {FALSE}) :
        IF efault
        THEN /\ rc' = -EFAULT
             /\ pc' = "done"
             /\ faults' = faults - 1
             /\ inj' = inj \cup {<<"get_user", 0, -1>>}
             /\ UNCHANGED <<pm, pp, cmode>>
        ELSE /\ pm' = [j \in DOMAIN pm |->
                        IF j <= chunk_nr_pages
                        THEN [pm[j] EXCEPT
                                !.from_addr =
                                    UserAddr(req.kinds, j + chunk_start, 1),
                                !.to_addr =
                                    UserAddr(req.kinds, j + chunk_start, 2)]
                        ELSE IF j = chunk_nr_pages + 1
                        THEN [pm[j] EXCEPT !.from_addr = 0, !.to_addr = 0]
                        ELSE pm[j]]
             /\ cmode' = IF "MOVE_MT" \in req.flags
                         THEN {"SYNC", "MT"} ELSE {"SYNC"}
             /\ pp' = 1
             /\ pc' = "array_loop"
             /\ UNCHANGED <<rc, faults, inj>>
    /\ UNCHANGED <<pageVars, listVars, last, xpass, ret_pc, req, status,
                   err_page_list, chunk_start>>

\* the chunk loop is over: "err = 0; out_pm: ... return err;"
pages_exchange_return ==
    /\ UNCHANGED farVars
    /\ pc = "pages_exchange"
    /\ ~(chunk_start < req.nr_pages)
    /\ rc' = 0
    /\ pc' = "done"
    /\ UNCHANGED <<pageVars, cmode, listVars, faults, histVars, ret_pc,
                   arrVars>>

\* One iteration of "for (pp = pm; pp->from_addr != 0 && pp->to_addr != 0;
\* pp++)": both addresses are validated and isolated, and a pair is made.
\* nomem: kzalloc of the pair fails and the loop is left.
array_entry ==
    /\ UNCHANGED farVars
    /\ pc = "array_loop"
    /\ pm[pp].from_addr # 0 /\ pm[pp].to_addr # 0
    /\ LET j         == pp + chunk_start
           from_page == pm[pp].from_addr
           to_page   == pm[pp].to_addr
           all       == "MOVE_ALL" \in req.flags
           vf        == validate_addr(AddrKind(j, 1), all)
           vt        == validate_addr(AddrKind(j, 2), all)
           pg1       == IF vf.isolated THEN isolate_lru_page(page, from_page)
                        ELSE page
           el1       == IF vf.isolated THEN Append(err_page_list, from_page)
                        ELSE err_page_list
           pg2       == IF vt.isolated THEN isolate_lru_page(pg1, to_page)
                        ELSE pg1
           el2       == IF vt.isolated THEN Append(el1, to_page) ELSE el1
       IN  IF vf.err # 0
           THEN \* set_from_status: ... "if (err) continue;"
                /\ pm' = [pm EXCEPT ![pp].from_status = vf.err]
                /\ page' = pg1
                /\ err_page_list' = el1
                /\ pp' = pp + 1
                /\ UNCHANGED <<exchange_list, faults, inj, pc>>
           ELSE IF vt.err # 0
           THEN /\ pm' = [pm EXCEPT ![pp].from_status = 0,
                                    ![pp].to_status = vt.err]
                /\ page' = pg2
                /\ err_page_list' = el2
                /\ pp' = pp + 1
                /\ UNCHANGED <<exchange_list, faults, inj, pc>>
           ELSE IF \/ PageHuge(page, from_page) # PageHuge(page, to_page)
                   \/ PageTransHuge(page, from_page)
                        # PageTransHuge(page, to_page)
           THEN /\ pm' = [pm EXCEPT ![pp].from_status = 0,
                                    ![pp].to_status = -EFAULT]
                /\ page' = pg2
                /\ err_page_list' = el2
                /\ pp' = pp + 1
                /\ UNCHANGED <<exchange_list, faults, inj, pc>>
           ELSE \E nomem \in (IF faults > 0 THEN BOOLEAN ELSE {FALSE}) :
                /\ pm' = [pm EXCEPT ![pp].from_status = 0,
                                    ![pp].to_status = 0]
                /\ page' = pg2
                /\ IF nomem
                   THEN /\ err_page_list' = el2
                        /\ pc' = "array_exchange"
                        /\ faults' = faults - 1
                        /\ inj' = inj \cup {<<"kzalloc", j, -1>>}
                        /\ UNCHANGED <<exchange_list, pp>>
                   ELSE \* list_del of both pages from err_page_list
                        /\ err_page_list' = err_page_list
                        /\ exchange_list' = Append(exchange_list, j)
                        /\ pp' = pp + 1
                        /\ UNCHANGED <<faults, inj, pc>>
    /\ UNCHANGED <<page0, ptes, cmode, pairs, unmapped_list, serialized_list,
                   todo, pass, retry, nr_failed, rc, last, xpass, ret_pc, req,
                   status, chunk_start>>

\* the loop condition fails: an entry with a zero address ends the loop
array_loop_end ==
    /\ UNCHANGED farVars
    /\ pc = "array_loop"
    /\ ~(pm[pp].from_addr # 0 /\ pm[pp].to_addr # 0)
    /\ pc' = "array_exchange"
    /\ UNCHANGED <<pageVars, cmode, listVars, rc, faults, histVars, ret_pc,
                   arrVars>>

\* After the loop: the pages left on err_page_list go back, and the list of
\* pairs is handed to exchange_pages_concur or to exchange_pages.
array_exchange ==
    /\ UNCHANGED farVars
    /\ pc = "array_exchange"
    /\ page' = putback_movable_pages(page, err_page_list)
    /\ err_page_list' = <<>>
    /\ IF exchange_list # <<>>
       THEN IF "MOVE_CONCUR" \in req.flags
            THEN /\ pc' = "concur_pass"
                 /\ pass' = 0
                 /\ retry' = 1
                 /\ todo' = <<>>
            ELSE /\ pc' = "exchange_pages"
                 /\ todo' = exchange_list
                 /\ UNCHANGED <<pass, retry>>
       ELSE /\ pc' = "array_ret"
            /\ UNCHANGED <<pass, retry, todo>>
    /\ rc' = 0
    /\ nr_failed' = 0
    /\ ret_pc' = "array_ret"
    /\ UNCHANGED <<page0, ptes, cmode, pairs, exchange_list, unmapped_list,
                   serialized_list, faults, histVars, req, pm, status, pp,
                   chunk_start>>

\* do_exchange_page_array frees the pairs and returns err; do_pages_exchange
\* leaves on "err < 0" and otherwise copies pm[j].to_status to the user.
array_return ==
    /\ UNCHANGED farVars
    /\ pc = "array_ret"
    /\ exchange_list' = <<>>
    /\ IF rc < 0
       THEN /\ pc' = "done"
            /\ UNCHANGED <<status, chunk_start, rc, faults, inj>>
       ELSE \E efault \in (IF faults > 0 THEN BOOLEAN ELSE {FALSE}) :
            IF efault
            THEN /\ rc' = -EFAULT
                 /\ pc' = "done"
                 /\ faults' = faults - 1
                 /\ inj' = inj \cup {<<"put_user", 0, -1>>}
                 /\ UNCHANGED <<status, chunk_start>>
            ELSE /\ status' = [i \in DOMAIN status |->
                                IF i > chunk_start
                                   /\ i <= chunk_start + chunk_nr_pages
                                THEN [written |-> TRUE,
                                      v |-> pm[i - chunk_start].to_status]
                                ELSE status[i]]
                 /\ chunk_start' = chunk_start + chunk_nr_pages
                 /\ pc' = "pages_exchange"
                 /\ UNCHANGED <<rc, faults, inj>>
    /\ UNCHANGED <<pageVars, cmode, pairs, unmapped_list, serialized_list,
                   todo, pass, retry, nr_failed, last, xpass, ret_pc, req, pm,
                   err_page_list, pp>>

NextArray ==
    \/ pages_exchange_chunk
    \/ pages_exchange_return
    \/ array_entry
    \/ array_loop_end
    \/ array_exchange
    \/ array_return
    \/ exchange_pages_pair
    \/ exchange_pages_return
    \/ concur_pass_begin
    \/ concur_pass_end
    \/ concur_unmap_pair
    \/ concur_commit
    \/ concur_data
    \/ concur_remap
    \/ concur_serial_pair
    \/ concur_return

SpecArray == InitArray /\ [][NextArray]_vars

(***************************************************************************)
(* Claims about exchange_pages_concur.                                     *)
(***************************************************************************)
\* pair i was exchanged: each page holds the other's content and identity
Exchanged(i) ==
    LET f == FromPage(i)
        t == ToPage(i)
    IN  /\ page[f].content = page0[t].content
        /\ page[t].content = page0[f].content
        /\ page[f].mapping = page0[t].mapping
        /\ page[t].mapping = page0[f].mapping
        /\ page[f].index = page0[t].index
        /\ page[t].index = page0[f].index

AllPlainAnon ==
    \A p \in DOMAIN page0 :
        /\ PageAnon(page0, p)
        /\ ~PageSwapCache(page0, p)
        /\ page0[p].nr = 1

\* C5: a batch of plain anonymous pairs in which one pair met one transient
\* unmap failure in the first pass ends like the undisturbed run - returned,
\* result 0, every pair exchanged - the affected pair one pass later.
C5_RetryEquivalent ==
    \A i \in DOMAIN pairs :
        (/\ AllPlainAnon
         /\ inj = {<<"busy", i, 0>>}
         /\ pc \in {"done", "oops", "bug", "hang"})
            => /\ pc = "done"
               /\ rc = 0
               /\ \A j \in DOMAIN pairs :
                     /\ Exchanged(j)
                     /\ xpass[j] = IF j = i THEN 1 ELSE 0

\* the undisturbed run of plain anonymous pairs exchanges all in pass 0
UndisturbedRun ==
    (AllPlainAnon /\ inj = {} /\ pc \in {"done", "oops", "bug", "hang"})
        => /\ pc = "done"
           /\ rc = 0
           /\ \A j \in DOMAIN pairs : Exchanged(j) /\ xpass[j] = 0

\* C6: exchange_pages_concur returns a failure exactly when some pair of the
\* batch ended without having been exchanged.
C6_FailureIffNotExchanged ==
    pc = "done" => ((rc # 0) <=> (\E i \in DOMAIN pairs : ~Exchanged(i)))

\* C12: when the call has returned, the content of every pair whose identity
\* was committed has been swapped exactly once, by the engine or by the
\* synchronous swap: each page holds what the other held at the start.
C12_ContentSwappedOnce ==
    pc = "done" =>
        \A i \in DOMAIN pairs :
            page[FromPage(i)].index = page0[ToPage(i)].index =>
                /\ page[FromPage(i)].content = page0[ToPage(i)].content
                /\ page[ToPage(i)].content = page0[FromPage(i)].content

\* One step of the lock discipline.  A page of a pair is locked by the call
\* only while the pair's from page is.  A call that found a lock held by
\* another thread either returns -EAGAIN at once, holding no lock it took
\* and with no translation touched, or waits: it then ends as the call does
\* that finds the lock free.  The single-pair call returns at once exactly under
\* MIGRATE_ASYNC; the batched unmap under MIGRATE_ASYNC and, if forced_only,
\* also in every pass that is not forced.
LockStep(forced_only) ==
    /\ \A i \in DOMAIN pairs :
          page'[ToPage(i)].locked => page'[FromPage(i)].locked
    /\ (last' # last /\ last'.env.busy # {} /\ last'.out = "ret") =>
          LET f == FromPage(last'.pair)
              t == ToPage(last'.pair)
              r == unmap_and_exchange_anon(page, ptes, f, t, cmode,
                                           [last'.env EXCEPT !.busy = {}])
          IN  IF "ASYNC" \in cmode
              THEN /\ last'.rc = -EAGAIN
                   /\ page'[f].locked = page[f].locked
                   /\ page'[t].locked = page[t].locked
                   /\ ptes' = ptes
              ELSE last'.rc = r.rc /\ ptes' = r.pte
    /\ \A i \in DOMAIN pairs :
          (pc = "concur_unmap" /\ <<"busy", i, pass>> \in inj' \ inj) =>
              IF "ASYNC" \in cmode \/ (forced_only /\ ~(pass > 2))
              THEN /\ retry' = retry + 1
                   /\ i \in Range(exchange_list')
                   /\ page'[FromPage(i)].locked = page[FromPage(i)].locked
                   /\ page'[ToPage(i)].locked = page[ToPage(i)].locked
                   /\ ptes' = ptes
              ELSE \E e \in UnmapEnvs(page, ptes, pairs[i], MaxFaults) :
                      LET r == unmap_pair_pages_concur(page, ptes, pairs[i],
                                                       TRUE, cmode, e)
                      IN  /\ e.busy = {}
                          /\ page' = r.pg
                          /\ ptes' = r.pte
                          /\ pairs'[i] = r.pair

\* C13 as stated: the lock of to is taken only under the lock of from; under
\* MIGRATE_ASYNC a failed try-lock ends the call at once with -EAGAIN and no
\* lock held; in blocking mode the call, single-pair or batched, waits.
C13_Original == [][LockStep(FALSE)]_vars

\* C13 amended: the lock of to is taken only under the lock of from; a failed
\* try-lock ends the call at once with -EAGAIN and no lock held under
\* MIGRATE_ASYNC and, in the batched unmap, in every pass that is not forced
\* (pass <= 2); in blocking mode the single-pair call waits, and the batched
\* unmap waits once it is forced.
C13_LockDiscipline == [][LockStep(TRUE)]_vars

\* a blocking batch met a held lock in its first pass and went on
C13_Witness ==
    \E i \in DOMAIN pairs :
        /\ <<"busy", i, 0>> \in inj
        /\ "ASYNC" \notin cmode
        /\ pc = "concur_unmap" /\ pass = 0 /\ retry > 0
        /\ i \notin Range(todo)
        /\ i \in Range(exchange_list)
        /\ ~page[FromPage(i)].locked /\ ~page[ToPage(i)].locked

\* C16: when exchange_pages_concur has returned, every page of every pair of
\* the batch has been put back exactly once, whether its pair was exchanged
\* in a batched pass, went to the serialized list or was still failing when
\* the passes ended.
C16_PutBackOnce ==
    pc = "done" => \A p \in DOMAIN page : page[p].putbacks = 1

\* C17: a pair whose exchange_page_move_mapping fails in the identity-commit
\* phase leaves the unmapped list for the serialized list: it is not on the
\* exchange list afterwards, and the content and remap phases do not see it.
C17_CommitFailureSerialized ==
    [][\A i \in DOMAIN pairs :
          (/\ pc = "concur_unmap" /\ todo = <<>>
           /\ i \in Range(unmapped_list)
           /\ i \notin Range(unmapped_list'))
              => /\ i \in Range(serialized_list')
                 /\ i \notin Range(exchange_list')]_vars

\* C18: every pair that goes into remove_migration_ptes_concur with its
\* identity committed in this pass has its content, its accounting group and
\* its cpupid hint swapped, whatever the list engine or the allocation of the
\* page arrays did.
C18_SwappedBeforeRemap ==
    pc = "concur_remap" =>
        \A i \in Range(unmapped_list) :
            pairs[i].from_page # 0 =>
                /\ page[FromPage(i)].index = page0[ToPage(i)].index
                /\ page[FromPage(i)].content = page0[ToPage(i)].content
                /\ page[ToPage(i)].content = page0[FromPage(i)].content
                /\ page[FromPage(i)].mem_cgroup = page0[ToPage(i)].mem_cgroup
                /\ page[ToPage(i)].mem_cgroup = page0[FromPage(i)].mem_cgroup
                /\ page[FromPage(i)].cpupid = page0[ToPage(i)].cpupid
                /\ page[ToPage(i)].cpupid = page0[FromPage(i)].cpupid

\* C19: a pair that the unmap loop has put on the unmapped list has both
\* pages locked and no page of it is still mapped: the unmap of each page
\* succeeded.
C19_UnmappedListLockedUnmapped ==
    pc = "concur_unmap" =>
        \A i \in Range(unmapped_list) :
            pairs[i].from_page # 0 =>
                /\ page[FromPage(i)].locked
                /\ page[ToPage(i)].locked
                /\ ~page_mapped(ptes, FromPage(i))
                /\ ~page_mapped(ptes, ToPage(i))

\* C25: exchange_page_move_mapping is all or nothing.  In the identity-commit
\* phase every pair of the unmapped list comes out in one of two ways: the
\* mapping, the index and the swap-backed flag of both pages are what they
\* were (the call returned -EAGAIN, or the walk stopped before the pair), or
\* each page has all three of the other page.  When the walk ends, the pairs
\* with a page whose reference count is not the expected one are the
\* unchanged ones and have left the unmapped list; the others are swapped.
C25_MoveMappingAllOrNothing ==
    [][(pc = "concur_unmap" /\ todo = <<>>) =>
          \A i \in Range(unmapped_list) :
              pairs[i].from_page # 0 =>
                  LET f == FromPage(i)
                      t == ToPage(i)
                      id(pg, p) == <<pg[p].mapping, pg[p].index, pg[p].swapbacked>>
                      unchanged == /\ id(page', f) = id(page, f)
                                   /\ id(page', t) = id(page, t)
                      swapped   == /\ id(page', f) = id(page, t)
                                   /\ id(page', t) = id(page, f)
                      counted   == \/ <<"pinned", i, pass>> \in inj' \ inj
                                   \/ page_mapped(ptes, f)
                                   \/ page_mapped(ptes, t)
                  IN  /\ unchanged \/ swapped
                      /\ pc' = "concur_data" =>
                            IF counted
                            THEN unchanged /\ i \notin Range(unmapped_list')
                            ELSE swapped /\ i \in Range(unmapped_list')]_vars

C25_Witness ==
    /\ pc = "concur_data"
    /\ \E i, j \in DOMAIN pairs :
          /\ <<"pinned", i, pass>> \in inj
          /\ i \notin Range(unmapped_list)
          /\ page[FromPage(i)].index = page0[FromPage(i)].index
          /\ page[ToPage(i)].index = page0[ToPage(i)].index
          /\ j \in Range(unmapped_list)
          /\ page[FromPage(j)].index = page0[ToPage(j)].index
          /\ page[ToPage(j)].index = page0[FromPage(j)].index
          /\ page[FromPage(j)].index # page[ToPage(j)].index

\* C26: every anon_vma reference of an exchange is taken under the page lock
\* and released exactly once.  The count of references the exchange holds on
\* the anon_vma of a page is 0 or 1 at every point (none is released twice or
\* taken over one that is still held), a reference is held only while the
\* page is locked, and none is held when the call has returned.
C26_AnonVmaReleasedOnce ==
    /\ \A p \in DOMAIN page :
          /\ page[p].anon_ref \in {0, 1}
          /\ page[p].anon_ref = 1 => page[p].locked
    /\ pc = "done" => \A p \in DOMAIN page : page[p].anon_ref = 0

\* C21: in the unmap loop a pair with a hugetlb page or a page that has an
\* address-space mapping, on either side, goes to the serialized list with no
\* unmap attempt: no page is locked and no translation is touched.
C21_HugeOrFileDiverted ==
    [][\A i \in DOMAIN pairs :
          (/\ pc = "concur_unmap" /\ todo # <<>> /\ Head(todo) = i
           /\ \/ PageHuge(page, FromPage(i))
              \/ PageHuge(page, ToPage(i))
              \/ page_mapping(page, FromPage(i)) # NullMapping
              \/ page_mapping(page, ToPage(i)) # NullMapping)
              => /\ i \in Range(serialized_list')
                 /\ page' = page
                 /\ ptes' = ptes]_vars

\* C22: no pair with a page that has an address-space mapping reaches the
\* identity swap: not the pairs the identity-commit phase is about to walk,
\* and not the pair of any unmap_and_exchange_anon call.
C22_NoMappedPairSwapped ==
    /\ (pc = "concur_unmap" /\ todo = <<>>) =>
          \A i \in Range(unmapped_list) :
              pairs[i].from_page # 0 =>
                  /\ page_mapping(page, FromPage(i)) = NullMapping
                  /\ page_mapping(page, ToPage(i)) = NullMapping
    /\ last # NoCall =>
          /\ page_mapping(last.pg, FromPage(last.pair)) = NullMapping
          /\ page_mapping(last.pg, ToPage(last.pair)) = NullMapping

\* the unmap loop is at a pair that goes to unmap_pair_pages_concur
AtUnmapOf(i) ==
    /\ pc = "concur_unmap" /\ todo # <<>> /\ Head(todo) = i
    /\ ~PageHuge(page, FromPage(i)) /\ ~PageHuge(page, ToPage(i))
    /\ page_mapping(page, FromPage(i)) = NullMapping

\* C23: in the unmap loop a page lock that is held - by another thread
\* during this step, or already - is only tried in passes 0, 1 and 2 and in
\* every pass under MIGRATE_ASYNC: the pair gets -EAGAIN at once, stays on
\* the exchange list and no lock or translation changes.  From pass 3 on, in
\* blocking mode, the lock is waited for: the step ends as the forced call
\* does that finds the lock free, or never returns when the lock does not
\* become free.
C23_TryThenWait ==
    [][\A i \in DOMAIN pairs :
          (/\ AtUnmapOf(i)
           /\ \/ page[FromPage(i)].locked
              \/ page[ToPage(i)].locked
              \/ <<"busy", i, pass>> \in inj' \ inj)
              => IF "ASYNC" \in cmode \/ ~(pass > 2)
                 THEN /\ pc' = pc
                      /\ retry' = retry + 1
                      /\ i \in Range(exchange_list')
                      /\ \A p \in DOMAIN page : page'[p].locked = page[p].locked
                      /\ ptes' = ptes
                 ELSE \E e \in UnmapEnvs(page, ptes, pairs[i], MaxFaults) :
                         LET r == unmap_pair_pages_concur(page, ptes, pairs[i],
                                                          TRUE, cmode, e)
                         IN  /\ e.busy = {}
                             /\ page' = r.pg
                             /\ ptes' = r.pte
                             /\ r.out # "ret" => pc' = r.out]_vars

\* a blocking batch whose pair failed the try-lock in passes 0, 1 and 2 waits
\* for the lock in pass 3
C23_Witness ==
    /\ pc = "hang"
    /\ pass = 3
    /\ "ASYNC" \notin cmode
    /\ \E i \in DOMAIN pairs :
          /\ i \in Range(exchange_list)
          /\ page[FromPage(i)].locked

\* C24: the pass loop of exchange_pages_concur.  A pass begins only while
\* pass < 10 and the pass before it had a transient failure, so that there
\* are at most 10 passes, and it walks the pairs then on the exchange list;
\* an unmap that fails with -EAGAIN leaves its pair on the exchange list, and
\* a pair stays there only counted in retry; when the loop is left, retry is
\* added to nr_failed, and a call that returns with retry > 0 returns
\* -EFAULT.
C24_PassLoop ==
    [][/\ pass' <= 10
       /\ (pc = "concur_pass" /\ pc' = "concur_unmap") =>
             /\ pass < 10 /\ retry # 0
             /\ retry' = 0
             /\ todo' = exchange_list
       /\ (pc = "concur_pass" /\ pc' = "concur_serial") =>
             /\ pass = 10 \/ retry = 0
             /\ nr_failed' = nr_failed + retry
       /\ \A i \in DOMAIN pairs :
             (AtUnmapOf(i) /\ pc' = pc) =>
                 /\ retry' \in {retry, retry + 1}
                 /\ (retry' = retry + 1) <=> (i \in Range(exchange_list'))
       /\ (pc = "concur_serial" /\ pc' = ret_pc /\ retry > 0) =>
             rc' = -EFAULT]_vars

\* a batch whose pair failed transiently in each of the ten passes has
\* returned -EFAULT
C24_Witness ==
    /\ pc = "done"
    /\ pass = 10
    /\ retry > 0
    /\ rc = -EFAULT
    /\ exchange_list # <<>>

\* C37: a pair that went through the identity commit, the content swap and
\* the remap of one pass is done with: no later phase walks it - every pair
\* a phase is about to walk has its page handles - and the pages of every
\* pair have been unlocked and put back by the remap at most once.
C37_ProcessedOnce ==
    /\ (\/ pc = "concur_unmap" /\ todo = <<>>
        \/ pc \in {"concur_data", "concur_remap"}) =>
          \A i \in Range(unmapped_list) :
              pairs[i].from_page # 0 /\ pairs[i].to_page # 0
    /\ \A i \in DOMAIN pairs :
          xpass[i] >= 0 =>
              /\ page[FromPage(i)].putbacks <= 1
              /\ page[ToPage(i)].putbacks <= 1

\* C38: when exchange_pages_concur has returned, no page of the batch is
\* locked by the call and no translation of a page of the batch is a
\* migration entry.
C38_NothingLockedAtReturn ==
    pc = "done" =>
        \A p \in DOMAIN page :
            /\ ~page[p].locked
            /\ ~HasMigrationPte(ptes, p)


(***************************************************************************)
(* exchange_pages_concur on a batch of one pair, the calling thread always *)
(* scheduled again (SpecConcurFair).  A page lock held by another thread   *)
(* is released in time: the wait for it ends as the step that found it     *)
(* free.  A wait for a lock the call holds itself does not end: pc stays   *)
(* "hang".                                                                 *)
(***************************************************************************)
InitConcurFair == InitConcur /\ Len(pairs) = 1

SpecConcurFair ==
    InitConcurFair /\ [][NextConcur]_vars /\ WF_vars(NextConcur)

\* C39: exchange_pages_concur comes to an end: it returns, or the kernel
\* stops it at a BUG or an oops; it never waits for a page lock for ever.
C39_Terminates ==
    <>(pc \in {"done", "oops", "bug"})


(***************************************************************************)
(* Claims about the bulk request (SpecArray).                              *)
(***************************************************************************)
Requested == 1..req.nr_pages

\* the address kinds that fail validation under the flags of the request
FailsValidation(k) ==
    \/ k = "null"
    \/ validate_addr(k, "MOVE_ALL" \in req.flags).err # 0

ValidEntry(i) == req.kinds[i] = <<"anon", "anon">>

FailingEntry(j) ==
    FailsValidation(AddrKind(j, 1)) \/ FailsValidation(AddrKind(j, 2))

\* C7: when the call is over, every status[i] that was written is 0 exactly
\* when pair i was exchanged, and negative otherwise.
C7_StatusIffExchanged ==
    pc = "done" =>
        \A i \in Requested :
            status[i].written =>
                /\ (status[i].v = 0) <=> Exchanged(i)
                /\ status[i].v # 0 => status[i].v < 0

\* C8: in an undisturbed call, an entry that fails validation (a null address
\* included) does not keep any other entry with two valid addresses from
\* being exchanged.
C8_BatchContinues ==
    (pc = "done" /\ faults = MaxFaults) =>
        \A i \in Requested :
            (ValidEntry(i) /\ \E j \in Requested \ {i} : FailingEntry(j))
                => Exchanged(i)

\* the same with the null address left out of the failing entries
BatchContinuesNonNull ==
    (pc = "done" /\ faults = MaxFaults) =>
        \A i \in Requested :
            (/\ ValidEntry(i)
             /\ \A j \in Requested : "null" \notin Range(req.kinds[j]))
                => Exchanged(i)

\* C11: when a bookkeeping allocation failed during the call - the pair
\* record of an entry, or the page arrays of a content-copy phase - the call
\* is over with -ENOMEM, no page is left isolated or locked, and no pair was
\* exchanged after the failure: none at all after a failed pair record, only
\* those of earlier passes after failed page arrays.
C11_AllocFailureAborts ==
    (pc = "done" /\ \E x \in inj : x[1] \in {"kzalloc", "nomem"}) =>
        /\ rc = -ENOMEM
        /\ \A p \in DOMAIN page : ~page[p].isolated /\ ~page[p].locked
        /\ \A x \in inj :
              /\ x[1] = "kzalloc" => \A i \in Requested : ~Exchanged(i)
              /\ x[1] = "nomem" =>
                    \A i \in Requested :
                        Exchanged(i) => xpass[i] # -1 /\ xpass[i] < x[3]


(***************************************************************************)
(* exchange_page_flags on its own (SpecFlags): two pages whose flags are   *)
(* any set of at most MaxFlagsSet flags a caller can pass.  The callers    *)
(* stop on PageWriteback before they get here, and active and unevictable  *)
(* exclude each other.                                                     *)
(***************************************************************************)
MaxFlagsSet == 2

FlagSets ==
    {fs \in SUBSET (FlagNames \ {"writeback"}) :
        /\ Cardinality(fs) <= MaxFlagsSet
        /\ ~({"active", "unevictable"} \subseteq fs)}

\* no list of pairs is being worked on
ListsIdle ==
    /\ pairs = <<>>
    /\ exchange_list = <<>>
    /\ unmapped_list = <<>>
    /\ serialized_list = <<>>
    /\ todo = <<>>
    /\ pass = 0
    /\ retry = 0
    /\ nr_failed = 0
    /\ last = NoCall
    /\ inj = {}
    /\ xpass = <<>>
    /\ ret_pc = "done"

InitFlags ==
    /\ \E ffrom \in FlagSets, fto \in FlagSets :
         page = [p \in 1..2 |->
                   [MkPage("anon", p) EXCEPT
                       !.flags = IF p = 1 THEN ffrom ELSE fto]]
    /\ page0 = page
    /\ ptes = [p \in 1..2 |-> [st |-> "migration", pg |-> p]]
    /\ cmode = {"SYNC"}
    /\ ListsIdle
    /\ ArrIdle
    /\ FarIdle
    /\ rc = 0
    /\ faults = 0
    /\ pc = "exchange_page_flags"

\* exchange_page_flags(to_page, from_page) with from_page = 1, to_page = 2
flags_call ==
    /\ pc = "exchange_page_flags"
    /\ page' = exchange_page_flags(page, 2, 1)
    /\ pc' = "done"
    /\ UNCHANGED <<page0, ptes, cmode, listVars, rc, faults, histVars, ret_pc,
                   outerVars>>

NextFlags == flags_call

SpecFlags == InitFlags /\ [][NextFlags]_vars

\* C3: after exchange_page_flags(to, from) every status flag of to is what
\* it was on from and the reverse, and so are the accounting group and the
\* cpupid hint.
C3_FlagsSwapped ==
    pc = "done" =>
        /\ \A f \in FlagNames :
              /\ (f \in page[2].flags) <=> (f \in page0[1].flags)
              /\ (f \in page[1].flags) <=> (f \in page0[2].flags)
        /\ page[2].mem_cgroup = page0[1].mem_cgroup
        /\ page[1].mem_cgroup = page0[2].mem_cgroup
        /\ page[2].cpupid = page0[1].cpupid
        /\ page[1].cpupid = page0[2].cpupid

\* the same for every flag but private
FlagsSwappedButPrivate ==
    pc = "done" =>
        /\ \A f \in FlagNames \ {"private"} :
              /\ (f \in page[2].flags) <=> (f \in page0[1].flags)
              /\ (f \in page[1].flags) <=> (f \in page0[2].flags)
        /\ "private" \notin page[1].flags \cup page[2].flags


(***************************************************************************)
(* The data exchange of exchange_from_to_pages at byte level (SpecSwap):   *)
(* exchange_page_mthread with its work items, and exchange_highpage /      *)
(* exchange_huge_page when the threaded engine is not used or returns an   *)
(* error.  mem.vfrom[b] and mem.vto[b] are the bytes at vfrom + b and      *)
(* vto + b; the GuardBytes bytes after each buffer are the memory that     *)
(* follows it.  A work item runs as one step.                              *)
(***************************************************************************)
MaxThreads == 6
MaxNrPages == 1
GuardBytes == 8
SIZEOF_U64 == 8
MAX_MT_NUM == 32

BufBytes(n) == 0..(PAGE_SIZE * n + GuardBytes - 1)
PageBytes(n) == 0..(PAGE_SIZE * n - 1)

\* what the two buffers hold before the call
FromByte(b) == b + 1
ToByte(b) == -(b + 1)

\* "for (i = 0; i < chunk_size; i += sizeof(tmp))" swaps the u64 at offset i:
\* byte b of the buffers is swapped when the u64 it lies in starts below
\* chunk_size
exchange_page_routine(m, base, chunk_size) ==
    LET swapped(b) ==
            /\ b >= base
            /\ ((b - base) \div SIZEOF_U64) * SIZEOF_U64 < chunk_size
    IN  [vfrom |-> [b \in DOMAIN m.vfrom |->
                      IF swapped(b) THEN m.vto[b] ELSE m.vfrom[b]],
         vto   |-> [b \in DOMAIN m.vto |->
                      IF swapped(b) THEN m.vfrom[b] ELSE m.vto[b]]]

\* exchange_highpage on page i of the buffers: exchange_page(vto, vfrom)
exchange_page(m, i) == exchange_page_routine(m, i * PAGE_SIZE, PAGE_SIZE)

\* exchange_huge_page: "for (i = 0; i < nr_pages; i++) exchange_highpage"
RECURSIVE exchange_huge_page(_, _, _)
exchange_huge_page(m, i, n) ==
    IF i >= n THEN m ELSE exchange_huge_page(exchange_page(m, i), i + 1, n)

Min(a, b) == IF a < b THEN a ELSE b

\* "chunk_size = PAGE_SIZE*nr_pages / total_mt_num;"
mt_chunk_size(nr, total) == (PAGE_SIZE * nr) \div total

\* total_mt_num of exchange_page_mthread, lines 61-75
mt_total_mt_num(limit, weight) ==
    LET t == Min(limit, weight)
    IN  IF t > 1 THEN (t \div 2) * 2 ELSE t

InitSwap ==
    /\ \E limit \in 0..MaxThreads, weight \in 1..MaxThreads,
          n \in 1..MaxNrPages, use \in BOOLEAN :
        /\ mt = [limit_mt_num |-> limit, cpus |-> weight, nr_pages |-> n,
                 use_mt |-> use, total_mt_num |-> 0, chunk_size |-> 0,
                 pending |-> {}]
        /\ mem = [vfrom |-> [b \in BufBytes(n) |-> FromByte(b)],
                  vto   |-> [b \in BufBytes(n) |-> ToByte(b)]]
    /\ page = <<>>
    /\ page0 = <<>>
    /\ ptes = <<>>
    /\ cmode = IF mt.use_mt THEN {"SYNC", "MT"} ELSE {"SYNC"}
    /\ ListsIdle
    /\ ArrIdle
    /\ ManageIdle
    /\ callers = <<>>
    /\ rc = -EFAULT
    /\ faults = 1
    /\ pc = "exchange_data"

\* "if (mode & MIGRATE_MT) rc = exchange_page_mthread(...)" up to the
\* queueing of the work items; nomem: kzalloc of the work items fails
exchange_page_mthread_queue ==
    /\ UNCHANGED <<mmVars, callers>>
    /\ pc = "exchange_data"
    /\ "MT" \in cmode
    /\ \E nomem \in (IF faults > 0 THEN BOOLEAN ELSE {FALSE}) :
        LET total == mt_total_mt_num(mt.limit_mt_num, mt.cpus)
        IN  IF total > MAX_MT_NUM \/ total < 1
            THEN /\ rc' = -ENODEV
                 /\ pc' = "exchange_plain"
                 /\ mt' = [mt EXCEPT !.total_mt_num = total]
                 /\ UNCHANGED faults
            ELSE IF nomem
            THEN /\ rc' = -ENOMEM
                 /\ pc' = "exchange_plain"
                 /\ mt' = [mt EXCEPT !.total_mt_num = total]
                 /\ faults' = faults - 1
            ELSE /\ mt' = [mt EXCEPT
                            !.total_mt_num = total,
                            !.chunk_size = mt_chunk_size(mt.nr_pages, total),
                            !.pending = 0..(total - 1)]
                 /\ pc' = "flush_workqueue"
                 /\ UNCHANGED <<rc, faults>>
    /\ UNCHANGED <<pageVars, cmode, listVars, histVars, ret_pc, arrVars, mem>>

\* MIGRATE_MT is not set: rc stays -EFAULT
exchange_data_no_mt ==
    /\ UNCHANGED <<mmVars, callers>>
    /\ pc = "exchange_data"
    /\ "MT" \notin cmode
    /\ pc' = "exchange_plain"
    /\ UNCHANGED <<pageVars, cmode, listVars, rc, faults, histVars, ret_pc,
                   arrVars, swapVars>>

\* one work item: exchange_page_work_queue_thread
exchange_page_work_queue_thread ==
    /\ UNCHANGED <<mmVars, callers>>
    /\ pc = "flush_workqueue"
    /\ \E i \in mt.pending :
        /\ mem' = exchange_page_routine(mem, i * mt.chunk_size, mt.chunk_size)
        /\ mt' = [mt EXCEPT !.pending = @ \ {i}]
    /\ UNCHANGED <<pc, pageVars, cmode, listVars, rc, faults, histVars,
                   ret_pc, arrVars>>

\* flush_workqueue returns when every work item has run; "return 0;"
exchange_page_mthread_return ==
    /\ UNCHANGED <<mmVars, callers>>
    /\ pc = "flush_workqueue"
    /\ mt.pending = {}
    /\ rc' = 0
    /\ pc' = "done"
    /\ UNCHANGED <<pageVars, cmode, listVars, faults, histVars, ret_pc,
                   arrVars, swapVars>>

\* "if (rc) { exchange_huge_page or exchange_highpage; rc = 0; }"
exchange_data_plain ==
    /\ UNCHANGED <<mmVars, callers>>
    /\ pc = "exchange_plain"
    /\ mem' = exchange_huge_page(mem, 0, mt.nr_pages)
    /\ rc' = 0
    /\ pc' = "done"
    /\ UNCHANGED <<pageVars, cmode, listVars, faults, histVars, ret_pc,
                   arrVars, mt>>

NextSwap ==
    \/ exchange_page_mthread_queue
    \/ exchange_data_no_mt
    \/ exchange_page_work_queue_thread
    \/ exchange_page_mthread_return
    \/ exchange_data_plain

SpecSwap == InitSwap /\ [][NextSwap]_vars

\* C1: when the data exchange has returned success, every byte of from holds
\* what to held before and the reverse, whatever the number of work items.
C1_ContentSwapped ==
    (pc = "done" /\ rc = 0) =>
        \A b \in PageBytes(mt.nr_pages) :
            /\ mem.vfrom[b] = ToByte(b)
            /\ mem.vto[b] = FromByte(b)

\* the content is exchanged whenever the chunk size is a whole number of
\* words
ContentSwappedAlignedChunks ==
    (pc = "done" /\ rc = 0 /\ mt.chunk_size % SIZEOF_U64 = 0) =>
        \A b \in PageBytes(mt.nr_pages) :
            /\ mem.vfrom[b] = ToByte(b)
            /\ mem.vto[b] = FromByte(b)


(***************************************************************************)
(* The four threaded engines side by side (SpecMthread): how each computes *)
(* its number of workers, what it does with a number it cannot use, and    *)
(* when it returns relative to its work items.                             *)
(*                                                                         *)
(* exchange_page_mthread is the byte-level model above.  For the other     *)
(* three, mt is [engine, limit_mt_num, cpus, nr_pages, total_mt_num,       *)
(* waited, unwaited, copied, freed, late]: limit_mt_num is the configured  *)
(* limit (nr_copythreads for the copy engines), cpus the weight of the     *)
(* destination node's cpumask, waited / unwaited the number of queued work *)
(* items that have not run yet and that the engine's flush does / does not *)
(* wait for, copied the number of work items that have run, freed whether  *)
(* the pages are kunmap'ed and work_items is kfree'd, late the number of   *)
(* work items that ran after that.  A work item runs as one step, at any   *)
(* time after it was queued.                                               *)
(*                                                                         *)
(* A division by zero is a trap on some builds and gives quotient 0 (and   *)
(* the dividend as remainder) on others; a store past the end of           *)
(* cpu_id_list[32] either corrupts the stack fatally or goes unnoticed.    *)
(***************************************************************************)
MaxListPages == 3
ThreadLimits == {0, 1, 2, 3, 4, 34}
CpuCounts == {1, 2, 3, 4, 36}

MthreadEngines == {"copy_pages_mthread", "copy_page_lists_mthread",
                   "exchange_page_mthread", "exchange_page_lists_mthread"}

\* "cthreads = nr_copythreads; cthreads = min_t(unsigned int, cthreads,
\* cpumask_weight(cpumask)); cthreads = (cthreads / 2) * 2;"
copy_pages_cthreads(limit, weight) == (Min(limit, weight) \div 2) * 2

\* the same, then "cthreads = min_t(unsigned int, nr_pages, cthreads);"
copy_page_lists_cthreads(limit, weight, nr_pages) ==
    Min(nr_pages, (Min(limit, weight) \div 2) * 2)

\* "total_mt_num = min_t(unsigned int, total_mt_num, cpumask_weight(...));
\* total_mt_num = min_t(int, nr_pages, total_mt_num);"
exchange_page_lists_total_mt_num(limit, weight, nr_pages) ==
    Min(nr_pages, Min(limit, weight))

InitMthread ==
    /\ \E engine \in MthreadEngines, limit \in ThreadLimits,
          weight \in CpuCounts, n \in 1..MaxListPages :
        IF engine = "exchange_page_mthread"
        THEN /\ n = MaxNrPages
             /\ mt = [limit_mt_num |-> limit, cpus |-> weight, nr_pages |-> n,
                      use_mt |-> TRUE, total_mt_num |-> 0, chunk_size |-> 0,
                      pending |-> {}]
             /\ mem = [vfrom |-> [b \in BufBytes(n) |-> FromByte(b)],
                       vto   |-> [b \in BufBytes(n) |-> ToByte(b)]]
             /\ pc = "exchange_data"
        ELSE /\ mt = [engine |-> engine, limit_mt_num |-> limit,
                      cpus |-> weight, nr_pages |-> n, total_mt_num |-> 0,
                      waited |-> 0, unwaited |-> 0, copied |-> 0,
                      freed |-> FALSE, late |-> 0]
             /\ mem = [vfrom |-> <<>>, vto |-> <<>>]
             /\ pc = engine
    /\ page = <<>>
    /\ page0 = <<>>
    /\ ptes = <<>>
    /\ cmode = {"SYNC", "MT"}
    /\ ListsIdle
    /\ ArrIdle
    /\ ManageIdle
    /\ callers = <<>>
    /\ rc = -EFAULT
    /\ faults = 1

\* copy_pages_mthread up to the queueing of the work items.  nomem: kcalloc
\* fails (a request of zero bytes allocates nothing and returns a non-null
\* token); trap: the outcome of the undefined operation, if there is one.
copy_pages_mthread_queue ==
    /\ pc = "copy_pages_mthread"
    /\ \E nomem \in (IF faults > 0 THEN BOOLEAN ELSE {FALSE}), trap \in BOOLEAN :
        LET cthreads == copy_pages_cthreads(mt.limit_mt_num, mt.cpus)
        IN  IF nomem /\ cthreads > 0
            THEN /\ rc' = -ENOMEM
                 /\ pc' = "done"
                 /\ mt' = [mt EXCEPT !.total_mt_num = cthreads]
                 /\ faults' = faults - 1
            ELSE /\ ~nomem
                 /\ UNCHANGED <<rc, faults>>
                 /\ IF trap
                    THEN \* "cpu_id_list[i] = cpu" with i >= 32, or
                         \* "PAGE_SIZE * nr_pages / cthreads" with cthreads = 0
                         /\ cthreads > MAX_MT_NUM \/ cthreads = 0
                         /\ pc' = "oops"
                         /\ mt' = [mt EXCEPT !.total_mt_num = cthreads]
                    ELSE \* "for (i = 0; i < cthreads; ++i) queue_work_on"
                         /\ pc' = "flush_work"
                         /\ mt' = [mt EXCEPT !.total_mt_num = cthreads,
                                             !.waited = cthreads]
    /\ UNCHANGED <<pageVars, cmode, listVars, histVars, ret_pc, arrVars, mem,
                   mmVars, callers>>

\* copy_page_lists_mthread up to the queueing of the work items: one per
\* page, of which the loop "for (i = 0; i < cthreads; ++i) flush_work" names
\* the first cthreads.  nr_pages is at most MaxListPages, so cthreads never
\* exceeds the 32 entries of cpu_id_list here.
copy_page_lists_mthread_queue ==
    /\ pc = "copy_page_lists_mthread"
    /\ \E nomem \in (IF faults > 0 THEN BOOLEAN ELSE {FALSE}), trap \in BOOLEAN :
        LET cthreads == copy_page_lists_cthreads(mt.limit_mt_num, mt.cpus,
                                                 mt.nr_pages)
        IN  IF nomem
            THEN /\ ~trap
                 /\ rc' = -ENOMEM
                 /\ pc' = "done"
                 /\ mt' = [mt EXCEPT !.total_mt_num = cthreads]
                 /\ faults' = faults - 1
            ELSE /\ UNCHANGED <<rc, faults>>
                 /\ IF trap
                    THEN \* "int thread_idx = i % cthreads;" with cthreads = 0
                         /\ cthreads = 0
                         /\ pc' = "oops"
                         /\ mt' = [mt EXCEPT !.total_mt_num = cthreads]
                    ELSE /\ pc' = "flush_work"
                         /\ mt' = [mt EXCEPT
                                     !.total_mt_num = cthreads,
                                     !.waited = cthreads,
                                     !.unwaited = mt.nr_pages - cthreads]
    /\ UNCHANGED <<pageVars, cmode, listVars, histVars, ret_pc, arrVars, mem,
                   mmVars, callers>>

\* exchange_page_lists_mthread up to the queueing of the work items: one per
\* page, all of them on the work queue that flush_workqueue waits for
exchange_page_lists_mthread_queue ==
    /\ pc = "exchange_page_lists_mthread"
    /\ \E nomem \in (IF faults > 0 THEN BOOLEAN ELSE {FALSE}) :
        LET total == exchange_page_lists_total_mt_num(mt.limit_mt_num, mt.cpus,
                                                      mt.nr_pages)
        IN  IF total > MAX_MT_NUM \/ total < 1
            THEN /\ rc' = -ENODEV
                 /\ pc' = "done"
                 /\ mt' = [mt EXCEPT !.total_mt_num = total]
                 /\ UNCHANGED faults
            ELSE IF nomem
            THEN /\ rc' = -ENOMEM
                 /\ pc' = "done"
                 /\ mt' = [mt EXCEPT !.total_mt_num = total]
                 /\ faults' = faults - 1
            ELSE /\ pc' = "flush_workqueue_lists"
                 /\ mt' = [mt EXCEPT !.total_mt_num = total,
                                     !.waited = mt.nr_pages]
                 /\ UNCHANGED <<rc, faults>>
    /\ UNCHANGED <<pageVars, cmode, listVars, histVars, ret_pc, arrVars, mem,
                   mmVars, callers>>

\* one work item of the three engines: copythread, or
\* exchange_page_work_queue_thread on a page of the list
copythread ==
    /\ pc \in {"flush_work", "flush_workqueue_lists", "done"}
    /\ "engine" \in DOMAIN mt
    /\ \/ /\ mt.waited > 0
          /\ mt' = [mt EXCEPT !.waited = @ - 1, !.copied = @ + 1]
       \/ /\ mt.unwaited > 0
          /\ mt' = [mt EXCEPT !.unwaited = @ - 1, !.copied = @ + 1,
                              !.late = IF mt.freed THEN @ + 1 ELSE @]
    /\ UNCHANGED <<pc, rc, faults, pageVars, cmode, listVars, histVars, ret_pc,
                   arrVars, mem, mmVars, callers>>

\* copy_pages_mthread from its flush loop: "for (i = 0; i < cthreads; ++i)
\* flush_work(&work_items[i])" returns when the work items it names have run;
\* then kunmap, kfree, "return 0;"
copy_pages_mthread_return ==
    /\ pc = "flush_work"
    /\ mt.engine = "copy_pages_mthread"
    /\ mt.waited = 0
    /\ mt' = [mt EXCEPT !.freed = TRUE]
    /\ rc' = 0
    /\ pc' = "done"
    /\ UNCHANGED <<faults, pageVars, cmode, listVars, histVars, ret_pc,
                   arrVars, mem, mmVars, callers>>

\* copy_page_lists_mthread from its flush loop, which returns when the first
\* cthreads work items have run; then kunmap of every page, kfree,
\* "return err;"
copy_page_lists_mthread_return ==
    /\ pc = "flush_work"
    /\ mt.engine = "copy_page_lists_mthread"
    /\ mt.waited = 0
    /\ mt' = [mt EXCEPT !.freed = TRUE]
    /\ rc' = 0
    /\ pc' = "done"
    /\ UNCHANGED <<faults, pageVars, cmode, listVars, histVars, ret_pc,
                   arrVars, mem, mmVars, callers>>

\* exchange_page_lists_mthread from flush_workqueue(system_highpri_wq), which
\* returns when every work item queued before the call has run; then kunmap
\* of every page, kfree, "return err;"
exchange_page_lists_mthread_return ==
    /\ pc = "flush_workqueue_lists"
    /\ mt.waited = 0
    /\ mt' = [mt EXCEPT !.freed = TRUE]
    /\ rc' = 0
    /\ pc' = "done"
    /\ UNCHANGED <<faults, pageVars, cmode, listVars, histVars, ret_pc,
                   arrVars, mem, mmVars, callers>>

NextMthread ==
    \/ copy_pages_mthread_queue
    \/ copy_page_lists_mthread_queue
    \/ exchange_page_lists_mthread_queue
    \/ copythread
    \/ copy_pages_mthread_return
    \/ copy_page_lists_mthread_return
    \/ exchange_page_lists_mthread_return
    \/ exchange_page_mthread_queue
    \/ exchange_page_work_queue_thread
    \/ exchange_page_mthread_return
    \/ exchange_data_plain

SpecMthread == InitMthread /\ [][NextMthread]_vars

\* C27: each threaded engine works with T = min(configured limit, CPUs of the
\* destination node) rounded down to an even number (a list engine with at
\* most one worker per page), and when T <= 1 or T > 32 its call returns an
\* error with no work item queued and no byte of the pages changed.
C27_ThreadCountChecked ==
    [][(pc \in (MthreadEngines \ {"exchange_page_mthread"}) \cup {"exchange_data"}) =>
          LET T == (Min(mt.limit_mt_num, mt.cpus) \div 2) * 2
          IN  IF T <= 1 \/ T > MAX_MT_NUM
              THEN /\ rc' < 0
                   /\ pc' \in {"done", "exchange_plain"}
                   /\ mem' = mem
                   /\ IF "engine" \in DOMAIN mt
                      THEN mt'.waited + mt'.unwaited = 0
                      ELSE mt'.pending = {}
              ELSE \/ rc' < 0 /\ pc' \in {"done", "exchange_plain"}
                   \/ mt'.total_mt_num \in {T, Min(mt.nr_pages, T)}]_vars

\* C28: a threaded list-mode call that has returned has no work item left
\* that has not run, and no work item runs after the pages were unmapped and
\* the work-item array freed.
C28_ReturnsAfterAllItems ==
    (pc = "done" /\ "engine" \in DOMAIN mt
     /\ mt.engine \in {"copy_page_lists_mthread", "exchange_page_lists_mthread"}) =>
        /\ mt.freed => mt.waited + mt.unwaited = 0
        /\ mt.late = 0


(***************************************************************************)
(* copy_page_dma_always and the channel pool it works on (SpecDma).        *)
(*                                                                         *)
(* mt is [copy_chan, use_all_dma_chans, limit_dma_chans, nr_pages,         *)
(* total_available_chans, used, unmap, i, inflight, error, released, late, *)
(* fault, grabs, stale].                                                   *)
(* copy_chan[c] is "ok" (copy_chan[c] and copy_dev[c] set),                *)
(* "nodev" (copy_chan[c] set, copy_dev[c] NULL) or "none" (both NULL);     *)
(* used is the number of pool entries the call has gone through, from 0,   *)
(* unmap is the number of unmap data the call holds, i the number of       *)
(* descriptors submitted, inflight the number of those the engine has not  *)
(* finished, error whether one finished in error, released whether the     *)
(* call has put its unmap data, late the number of descriptors that        *)
(* finished after that, fault the failure the call met, grabs the number   *)
(* of writes that grabbed the channels, stale whether the call has         *)
(* submitted to or waited on a channel after its release.  The hardware    *)
(* finishes a submitted descriptor at any time.  The sysctl handler is     *)
(* another task's: it runs at any time, a call under way or not.  The      *)
(* loops before the submit loop are one step.                              *)
(*                                                                         *)
(* A channel that was released is no longer the caller's: a use of it, or  *)
(* of a descriptor prepared on it, is undefined, and a use of its cleared  *)
(* slot is a NULL dereference.                                             *)
(*                                                                         *)
(* ilog2(0) is -1 and a shift by -1 is undefined: the result is INT_MIN    *)
(* where the shift count is masked and 0 where it is not.                  *)
(***************************************************************************)
NUM_AVAIL_DMA_CHAN == 16
MaxMissing == 2
MaxGrabs == 1

DmaChans == 0..(NUM_AVAIL_DMA_CHAN - 1)

\* the values limit_dma_chans is given
DmaLimits == {1, 3, NUM_AVAIL_DMA_CHAN}

\* what the grab loop of sysctl_dma_page_migration can leave in copy_chan and
\* copy_dev: dma_request_channel fails, or the channel has no device, for at
\* most MaxMissing entries anywhere, or the system runs out of channels after
\* the first n
ChanPools ==
    (UNION {{[c \in DmaChans |-> IF c \in P THEN k[c] ELSE "ok"] :
                k \in [P -> {"nodev", "none"}]} :
            P \in {Q \in SUBSET DmaChans : Cardinality(Q) <= MaxMissing}})
    \cup {[c \in DmaChans |-> IF c < n THEN "ok" ELSE "none"] :
             n \in 0..NUM_AVAIL_DMA_CHAN}

\* total_available_chans of copy_page_dma_always, lines 182-198, for a
\* positive minimum: the index of the last entry with no channel, the limit,
\* the power of two below
dma_total_available_chans(pool, limit) ==
    LET missing == {c \in DmaChans : pool[c] = "none"}
        total == IF missing = {} THEN NUM_AVAIL_DMA_CHAN
                 ELSE CHOOSE c \in missing : \A d \in missing : d <= c
        t == Min(total, limit)
    IN  IF t < 1 THEN t
        ELSE CHOOSE q \in {1, 2, 4, 8, 16} : q <= t /\ t < 2 * q

InitDma ==
    /\ \E limit \in DmaLimits, n \in {1, HPAGE_PMD_NR} :
        mt = [copy_chan |-> [c \in DmaChans |-> "none"],
              use_all_dma_chans |-> 0, limit_dma_chans |-> limit,
              nr_pages |-> n, total_available_chans |-> NUM_AVAIL_DMA_CHAN,
              used |-> 0, unmap |-> 0, i |-> 0, inflight |-> 0, error |-> FALSE,
              released |-> FALSE, late |-> 0, fault |-> "none",
              grabs |-> 0, stale |-> FALSE]
    /\ mem = [vfrom |-> <<>>, vto |-> <<>>]
    /\ page = <<>>
    /\ page0 = <<>>
    /\ ptes = <<>>
    /\ cmode = {"SYNC"}
    /\ ListsIdle
    /\ ArrIdle
    /\ ManageIdle
    /\ callers = <<>>
    /\ rc = 0
    /\ faults = 1
    /\ pc = "dma_idle"

\* the handler were it to run between calls only
sysctl_between_calls ==
    /\ pc = "dma_idle"
    /\ IF mt.use_all_dma_chans = 0
       THEN \E p \in ChanPools :
               /\ mt.grabs < MaxGrabs
               /\ \A c \in DmaChans :
                     mt.copy_chan[c] # "none" => p[c] = mt.copy_chan[c]
               /\ mt' = [mt EXCEPT !.use_all_dma_chans = 1, !.copy_chan = p,
                                   !.grabs = @ + 1]
       ELSE mt' = [mt EXCEPT !.use_all_dma_chans = 0,
                             !.copy_chan = [c \in DmaChans |-> "none"]]
    /\ UNCHANGED <<pc, rc, faults, pageVars, cmode, listVars, histVars, ret_pc,
                   arrVars, mem, mmVars, callers>>

\* sysctl_dma_page_migration, a write that changes use_all_dma_chans: from 0
\* to 1 every empty entry asks for a channel, from 1 to 0 every channel is
\* released and its entry cleared.  Nothing is taken that a call holds.
sysctl_dma_page_migration ==
    /\ pc \in {"dma_idle", "dma_submit", "dma_sync_wait", "done"}
    /\ "grabs" \in DOMAIN mt
    /\ IF mt.use_all_dma_chans = 0
       THEN \E p \in ChanPools :
               /\ mt.grabs < MaxGrabs
               /\ \A c \in DmaChans :
                     mt.copy_chan[c] # "none" => p[c] = mt.copy_chan[c]
               /\ mt' = [mt EXCEPT !.use_all_dma_chans = 1, !.copy_chan = p,
                                   !.grabs = @ + 1]
       ELSE mt' = [mt EXCEPT !.use_all_dma_chans = 0,
                             !.copy_chan = [c \in DmaChans |-> "none"]]
    /\ UNCHANGED <<pc, rc, faults, pageVars, cmode, listVars, histVars, ret_pc,
                   arrVars, mem, mmVars, callers>>

\* copy_page_dma with use_all_dma_chans set: copy_page_dma_always up to the
\* submit loop.  f, j: the failure the call meets and the channel at which.
copy_page_dma_always_prepare ==
    /\ pc = "dma_idle"
    /\ mt.use_all_dma_chans = 1
    /\ \E f \in {"none"} \cup (IF faults > 0 THEN {"unmap", "prep"} ELSE {}),
          j \in DmaChans, masked \in BOOLEAN :
        LET t0  == dma_total_available_chans(mt.copy_chan, mt.limit_dma_chans)
            t   == IF t0 < 1 THEN (IF masked THEN -2147483647 - 1 ELSE 0) ELSE t0
            bad == {c \in DmaChans : c < t /\ mt.copy_chan[c] # "ok"}
            first_bad == CHOOSE c \in bad : \A d \in bad : c <= d
            ret(v, n, fault) ==
                /\ rc' = v
                /\ pc' = "done"
                /\ mt' = [mt EXCEPT !.total_available_chans = t, !.used = n,
                                    !.unmap = 0, !.released = TRUE,
                                    !.fault = fault]
                /\ faults' = IF fault \in {"unmap", "prep"} THEN faults - 1
                             ELSE faults
        IN  IF t < 1
            THEN \* no loop runs; "nr_pages % 0" traps or leaves nr_pages
                 /\ f = "none" /\ j = 0
                 /\ IF mt.nr_pages # 1
                    THEN \/ ret(-5, 0, "nr_pages")
                         \/ /\ t = 0
                            /\ pc' = "oops"
                            /\ mt' = [mt EXCEPT !.total_available_chans = t]
                            /\ UNCHANGED <<rc, faults>>
                    ELSE ret(0, 0, "none")
            ELSE
            /\ masked
            /\ IF mt.nr_pages # 1 /\ mt.nr_pages % t # 0
               THEN f = "none" /\ j = 0 /\ ret(-5, 0, "nr_pages")
               ELSE IF f = "unmap" /\ j < t /\ \A c \in bad : j < c
               THEN \* "unmap[i] = dmaengine_get_unmap_data(...)" fails at j
                    ret(-3, j + 1, "unmap")
               ELSE IF bad # {}
               THEN \* "copy_dev[i]->dev" with copy_dev[i] NULL
                    /\ f = "none" /\ j = 0
                    /\ pc' = "oops"
                    /\ mt' = [mt EXCEPT !.total_available_chans = t,
                                        !.used = first_bad + 1]
                    /\ UNCHANGED <<rc, faults>>
               ELSE IF f = "prep" /\ j < t
               THEN \* "tx[i] = ...device_prep_dma_memcpy(...)" fails at j
                    ret(-4, t, "prep")
               ELSE /\ f = "none" /\ j = 0
                    /\ pc' = "dma_submit"
                    /\ mt' = [mt EXCEPT !.total_available_chans = t,
                                        !.used = t, !.unmap = t]
                    /\ UNCHANGED <<rc, faults>>
    /\ UNCHANGED <<pageVars, cmode, listVars, histVars, ret_pc, arrVars, mem,
                   mmVars, callers>>

\* one round of the submit loop: "cookie[i] = tx[i]->tx_submit(tx[i])", on
\* an error "ret_val = -5; goto unmap_dma", else dma_async_issue_pending
copy_page_dma_always_submit ==
    /\ pc = "dma_submit"
    /\ \E fails \in (IF faults > 0 THEN BOOLEAN ELSE {FALSE}) :
        IF mt.copy_chan[mt.i] # "ok"
        THEN \* tx[i] is of a released channel, and "copy_chan[i]" is NULL
             \* in dma_async_issue_pending
             /\ ~fails
             /\ pc' = "oops"
             /\ mt' = [mt EXCEPT !.stale = TRUE]
             /\ UNCHANGED <<rc, faults>>
        ELSE IF fails
        THEN /\ rc' = -5
             /\ pc' = "done"
             /\ mt' = [mt EXCEPT !.unmap = 0, !.released = TRUE,
                                 !.fault = "submit"]
             /\ faults' = faults - 1
        ELSE /\ mt' = [mt EXCEPT !.i = @ + 1, !.inflight = @ + 1]
             /\ pc' = IF mt.i + 1 = mt.total_available_chans
                      THEN "dma_sync_wait" ELSE "dma_submit"
             /\ UNCHANGED <<rc, faults>>
    /\ UNCHANGED <<pageVars, cmode, listVars, histVars, ret_pc, arrVars, mem,
                   mmVars, callers>>

\* the engine finishes a descriptor, properly or not
dma_complete ==
    /\ pc \in {"dma_submit", "dma_sync_wait", "done"}
    /\ "inflight" \in DOMAIN mt
    /\ mt.inflight > 0
    /\ \E bad \in (IF faults > 0 /\ ~mt.released THEN BOOLEAN ELSE {FALSE}) :
        /\ mt' = [mt EXCEPT !.inflight = @ - 1,
                            !.error = @ \/ bad,
                            !.fault = IF bad THEN "complete" ELSE @,
                            !.late = IF mt.released THEN @ + 1 ELSE @]
        /\ faults' = IF bad THEN faults - 1 ELSE faults
    /\ UNCHANGED <<pc, rc, pageVars, cmode, listVars, histVars, ret_pc,
                   arrVars, mem, mmVars, callers>>

\* the wait loop: dma_sync_wait on every channel in turn returns when its
\* descriptor is finished, "ret_val = -6" when not DMA_COMPLETE; then
\* unmap_dma: dmaengine_unmap_put of every unmap data, "return ret_val;"
copy_page_dma_always_wait ==
    /\ pc = "dma_sync_wait"
    /\ LET cleared == \E c \in DmaChans :
                          c < mt.total_available_chans /\ mt.copy_chan[c] # "ok"
       IN  \/ /\ mt.inflight = 0
              /\ rc' = IF mt.error THEN -6 ELSE 0
              /\ pc' = "done"
              /\ mt' = [mt EXCEPT !.unmap = 0, !.released = TRUE,
                                  !.stale = @ \/ cleared]
           \/ \* "dma_sync_wait(copy_chan[i], ...)" with copy_chan[i] NULL
              /\ cleared
              /\ pc' = "oops"
              /\ mt' = [mt EXCEPT !.stale = TRUE]
              /\ UNCHANGED rc
    /\ UNCHANGED <<faults, pageVars, cmode, listVars, histVars, ret_pc,
                   arrVars, mem, mmVars, callers>>

NextDma ==
    \/ sysctl_dma_page_migration
    \/ copy_page_dma_always_prepare
    \/ copy_page_dma_always_submit
    \/ dma_complete
    \/ copy_page_dma_always_wait

SpecDma == InitDma /\ [][NextDma]_vars

\* C29: whatever entries of the pool are missing, copy_page_dma_always works
\* on reserved channels only: every pool entry it allocates, prepares or
\* submits on has a channel and a device, and the number of channels it
\* settles on is a power of two, at least 1, at most the number of
\* reserved channels and at most limit_dma_chans.
C29_ReservedChannelsOnly ==
    [][(pc = "dma_idle" /\ mt.use_all_dma_chans = 1 /\ pc' # "dma_idle") =>
          LET t == mt'.total_available_chans
              reserved == {c \in DmaChans : mt.copy_chan[c] = "ok"}
          IN  /\ t \in {1, 2, 4, 8, 16}
              /\ t <= Cardinality(reserved)
              /\ t <= mt.limit_dma_chans
              /\ \A c \in DmaChans : c < mt'.used => c \in reserved]_vars

\* C30: copy_page_dma_always has put its unmap data and returned only when
\* no descriptor it submitted is still with the engine, and a call that met
\* a failure returns a negative status.
C30_ReturnsAfterCompletion ==
    /\ mt.released => mt.inflight = 0 /\ mt.late = 0
    /\ (pc = "done" /\ mt.fault # "none") => rc < 0

\* C31: nothing orders a write that clears use_all_dma_chans against a
\* copy_page_dma_always under way: while a call is in its submit loop or in
\* its wait loop and the pool is on, the handler can run and release every
\* channel (the state in which the call then submits to, or waits on, a
\* released channel is C31_Witness).
C31_ToggleUnordered ==
    (pc \in {"dma_submit", "dma_sync_wait"} /\ mt.use_all_dma_chans = 1) =>
        ENABLED sysctl_dma_page_migration

C31_Witness ==
    /\ pc \in {"oops", "done"}
    /\ "stale" \in DOMAIN mt
    /\ mt.stale
    /\ mt.use_all_dma_chans = 0
    /\ mt.i > 0


(***************************************************************************)
(* mm_manage(2): do_mm_manage and its helpers (mm/memory_manage.c).        *)
(*                                                                         *)
(* A page on an LRU list or on one of do_mm_manage's lists is a record     *)
(* [node, active, huge, nr, id]: the node it lives on, the LRU list it was *)
(* taken from, whether it is a PMD-sized huge page, its number of          *)
(* subpages, and for a huge page its index in the page table (another page *)
(* has no entry there, id numbers it).  A compound page of OddNr subpages  *)
(* is a page of neither size class.  Only the two                          *)
(* anonymous LRU lists of a node are modelled, and __isolate_lru_page      *)
(* succeeds on every page it is given.  A list is written in the order it  *)
(* is walked: an LRU list from the end isolate_lru_pages scans first.      *)
(*                                                                         *)
(* The machine words are scaled: an unsigned long has ULONG_BITS bits and  *)
(* an int INT_BITS bits.  Every page count of the model is far below       *)
(* 2^(INT_BITS-1), so a value wraps or is truncated in the model exactly   *)
(* when it does in the code.                                               *)
(***************************************************************************)
ULONG_BITS == 24
INT_BITS == 12
MaxHuge == 1        \* huge pages on an LRU list
ManyBase == 511     \* base pages on a long LRU list
OddNr == 9          \* subpages of a compound page that is no PMD-sized one

ULONG_MOD == 2 ^ ULONG_BITS
ULONG_MAX == ULONG_MOD - 1
INT_MOD == 2 ^ INT_BITS

\* conversion to unsigned long, to long and to int
ToULong(x) == x % ULONG_MOD
ToLong(x) ==
    LET u == x % ULONG_MOD
    IN  IF u >= ULONG_MOD \div 2 THEN u - ULONG_MOD ELSE u
ToInt(x) ==
    LET u == x % INT_MOD
    IN  IF u >= INT_MOD \div 2 THEN u - INT_MOD ELSE u

\* the division of C truncates towards zero
CDiv(a, b) == IF a >= 0 THEN a \div b ELSE -((-a) \div b)

hpage_nr_pages(d) == d.nr

\* the sum of hpage_nr_pages over a list
ListPages(list) ==
    Len(SelectSeq(list, LAMBDA d : d.nr = 1))
        + HPAGE_PMD_NR * Len(SelectSeq(list, LAMBDA d : d.nr = HPAGE_PMD_NR))
        + OddNr * Len(SelectSeq(list, LAMBDA d : d.nr = OddNr))

Reverse(list) == [k \in 1..Len(list) |-> list[Len(list) + 1 - k]]

\* the loop of isolate_lru_pages over the entries lo..hi of src, from the
\* locals s = [scan, nr_taken]; the range is walked in halves
RECURSIVE isolate_lru_scan(_, _, _, _, _)
isolate_lru_scan(src, nr_to_scan, s, lo, hi) ==
    IF lo > hi THEN s
    ELSE IF lo = hi
    THEN IF s.scan < nr_to_scan /\ s.nr_taken < nr_to_scan /\ s.scan = lo - 1
         THEN [scan |-> s.scan + 1,
               nr_taken |-> s.nr_taken + hpage_nr_pages(src[lo])]
         ELSE s
    ELSE LET mid == (lo + hi) \div 2
             t   == isolate_lru_scan(src, nr_to_scan, s, lo, mid)
         IN  IF t.scan < mid THEN t
             ELSE isolate_lru_scan(src, nr_to_scan, t, mid + 1, hi)

\* isolate_lru_pages: list_move puts every page at the head of its list; a
\* page of another size goes to odd_list, is counted with the base pages and
\* ends at the tail of the list of huge pages
isolate_lru_pages(nr_to_scan, src, dst_base_page, dst_huge_page) ==
    LET lists(r, base, huge, odd_list) ==
            [src      |-> SubSeq(src, r.scan + 1, Len(src)),
             base     |-> Reverse(base) \o dst_base_page,
             huge     |-> Reverse(huge) \o dst_huge_page \o Reverse(odd_list),
             nr_taken |-> r.nr_taken,
             nr_taken_base_page |-> Len(base) + ListPages(odd_list),
             nr_taken_huge_page |-> Len(huge) * HPAGE_PMD_NR]
        sorted(r, taken) ==
            lists(r,
                  SelectSeq(taken, LAMBDA d : hpage_nr_pages(d) = 1),
                  SelectSeq(taken, LAMBDA d : hpage_nr_pages(d) = HPAGE_PMD_NR),
                  SelectSeq(taken, LAMBDA d :
                      hpage_nr_pages(d) \notin {1, HPAGE_PMD_NR}))
        scanned(r) == sorted(r, SubSeq(src, 1, r.scan))
    IN  scanned(isolate_lru_scan(src, nr_to_scan,
                                 [scan |-> 0, nr_taken |-> 0], 1, Len(src)))

\* A variant of isolate_pages_from_lru_list that scans both lists whatever
\* the action
isolate_pages_any_action(inactive, active, size_node, nr_pages_arg, action) ==
    LET nr_pages == IF nr_pages_arg = ULONG_MAX THEN size_node
                    ELSE nr_pages_arg
        r1 == isolate_lru_pages(nr_pages, inactive, <<>>, <<>>)
        r2 == IF r1.nr_taken > nr_pages
              THEN [src |-> active, base |-> r1.base, huge |-> r1.huge,
                    nr_taken |-> 0, nr_taken_base_page |-> 0,
                    nr_taken_huge_page |-> 0]
              ELSE isolate_lru_pages(nr_pages, active, r1.base, r1.huge)
    IN  [inactive |-> r1.src, active |-> r2.src, base |-> r2.base,
         huge |-> r2.huge, nr_all_taken |-> r1.nr_taken + r2.nr_taken,
         nr_taken_base_page |-> r1.nr_taken_base_page + r2.nr_taken_base_page,
         nr_taken_huge_page |-> r1.nr_taken_huge_page + r2.nr_taken_huge_page]

\* isolate_pages_from_lru_list on the lists <<inactive, active>> of a node
\* whose memcg_size_node is size_node
isolate_pages_from_lru_list(inactive, active, size_node, nr_pages_arg, action) ==
    LET nr_pages == IF nr_pages_arg = ULONG_MAX THEN size_node
                    ELSE nr_pages_arg
        none(src) == [src |-> src, base |-> <<>>, huge |-> <<>>,
                      nr_taken |-> 0, nr_taken_base_page |-> 0,
                      nr_taken_huge_page |-> 0]
        both(r1, r2) ==
            [inactive |-> r1.src,
             active   |-> r2.src,
             base     |-> r2.base,
             huge     |-> r2.huge,
             nr_all_taken |-> r1.nr_taken + r2.nr_taken,
             nr_taken_base_page |->
                 r1.nr_taken_base_page + r2.nr_taken_base_page,
             nr_taken_huge_page |->
                 r1.nr_taken_huge_page + r2.nr_taken_huge_page]
        from_active(r1) ==
            both(r1,
                 IF action = "ISOLATE_COLD_PAGES" \/ r1.nr_taken > nr_pages
                 THEN [none(active) EXCEPT !.base = r1.base, !.huge = r1.huge]
                 ELSE isolate_lru_pages(nr_pages, active, r1.base, r1.huge))
    IN  from_active(IF action = "ISOLATE_HOT_PAGES" THEN none(inactive)
                    ELSE isolate_lru_pages(nr_pages, inactive, <<>>, <<>>))

\* migrate_pages and migrate_pages_concur leave the pages they could not
\* move on the list and return how many these are: here the first nfail
\* entries
migrate_pages(page_list, nfail) ==
    [err      |-> nfail,
     left     |-> SubSeq(page_list, 1, nfail),
     migrated |-> SubSeq(page_list, nfail + 1, Len(page_list))]

\* migrate_to_node: num (an int), the pages that moved, the pages put back
migrate_to_node(page_list, nfail) ==
    IF page_list = <<>>
    THEN [num |-> 0, migrated |-> <<>>, putback |-> <<>>]
    ELSE LET m == migrate_pages(page_list, nfail)
         IN  IF m.err # 0
             THEN [num |-> ToInt(ListPages(m.left)), migrated |-> m.migrated,
                   putback |-> m.left]
             ELSE [num |-> 0, migrated |-> m.migrated, putback |-> <<>>]

\* the list_for_each_entry loop of _putback_overflow_pages over the entries
\* lo..hi, from s = [at, max_nr_pages]: at is 0 while the loop runs and the
\* entry of the break after it; the range is walked in halves
RECURSIVE putback_overflow_scan(_, _, _, _)
putback_overflow_scan(page_list, s, lo, hi) ==
    IF lo > hi THEN s
    ELSE IF lo = hi
    THEN LET nr_pages == hpage_nr_pages(page_list[lo])
         IN  IF s.at # 0 THEN s
             ELSE IF s.max_nr_pages <= 2 * nr_pages
             THEN [at |-> lo, max_nr_pages |-> 0]
             ELSE [at |-> 0,
                   max_nr_pages |-> ToULong(s.max_nr_pages - nr_pages)]
    ELSE LET mid == (lo + hi) \div 2
             t   == putback_overflow_scan(page_list, s, lo, mid)
         IN  IF t.at # 0 THEN t
             ELSE putback_overflow_scan(page_list, t, mid + 1, hi)

\* A variant of _putback_overflow_pages that keeps the whole list
putback_no_overflow(max_nr_pages, page_list) ==
    [ret |-> ToInt(max_nr_pages), keep |-> page_list, putback |-> <<>>]

\* _putback_overflow_pages: the int it returns, the pages left on page_list
\* and the pages it puts back
_putback_overflow_pages(max_nr_pages, page_list) ==
    IF page_list = <<>>
    THEN [ret |-> ToInt(max_nr_pages), keep |-> <<>>, putback |-> <<>>]
    ELSE IF max_nr_pages <= 2 * hpage_nr_pages(Head(page_list))
    THEN [ret |-> 0, keep |-> <<>>, putback |-> page_list]
    ELSE LET r == putback_overflow_scan(page_list,
                      [at |-> 0, max_nr_pages |-> max_nr_pages],
                      1, Len(page_list))
         IN  IF r.at # 0
             THEN [ret |-> ToInt(r.max_nr_pages),
                   keep |-> SubSeq(page_list, 1, r.at),
                   putback |-> SubSeq(page_list, r.at + 1, Len(page_list))]
             ELSE [ret |-> ToInt(r.max_nr_pages), keep |-> page_list,
                   putback |-> <<>>]

putback_overflow_pages(max_nr_base_pages, max_nr_huge_pages, nr_free_pages, base_page_list, huge_page_list) ==
    LET over1 == nr_free_pages < 0
                  /\ ToULong(-nr_free_pages) > max_nr_base_pages
        free1 == IF over1 THEN ToLong(nr_free_pages + max_nr_base_pages)
                 ELSE nr_free_pages
        base1 == IF over1 THEN 0 ELSE max_nr_base_pages
        over2 == nr_free_pages < 0 /\ ToULong(-free1) > max_nr_huge_pages
        free2 == IF over2 THEN 0 ELSE free1
        base2 == IF over2 THEN 0 ELSE base1
        b == _putback_overflow_pages(ToULong(CDiv(free2, 2) + base2),
                                     base_page_list)
        huge2 == ToULong(max_nr_huge_pages + b.ret)
        h == _putback_overflow_pages(ToULong(CDiv(free2, 2) + huge2),
                                     huge_page_list)
    IN  [ret |-> h.ret, base |-> b.keep, huge |-> h.keep,
         putback |-> b.putback \o h.putback,
         base_budget |-> ToULong(CDiv(free2, 2) + base2),
         huge_budget |-> ToULong(CDiv(free2, 2) + huge2)]

\* A variant of add_pages_to_exchange_list that pairs the first pages of
\* the two lists whatever their sizes
RECURSIVE add_pages_unchecked(_, _, _, _, _)
add_pages_unchecked(from_pagelist, to_pagelist, info_list, odd_from_list, odd_to_list) ==
    IF from_pagelist = <<>> \/ to_pagelist = <<>>
    THEN [info_list_index |-> Len(info_list),
          info_list |-> info_list,
          from_pagelist |-> from_pagelist,
          to_pagelist |-> to_pagelist]
    ELSE add_pages_unchecked(Tail(from_pagelist), Tail(to_pagelist),
             Append(info_list, [from_page |-> Head(from_pagelist),
                                to_page |-> Head(to_pagelist)]),
             odd_from_list, odd_to_list)

\* add_pages_to_exchange_list on the two lists of huge pages, from the
\* pairs written so far and the local lists odd_from_list and odd_to_list:
\* the pairs it writes into info_list, as the pages of each, and what is
\* left of the lists.  The test that guards each list_del/list_add of the
\* mismatch branch is "!(n == 1 && n == HPAGE_PMD_NR)".
RECURSIVE add_pages_to_exchange_list(_, _, _, _, _)
add_pages_to_exchange_list(from_pagelist, to_pagelist, info_list, odd_from_list, odd_to_list) ==
    IF from_pagelist = <<>> \/ to_pagelist = <<>>
    THEN [info_list_index |-> Len(info_list),
          info_list |-> info_list,
          from_pagelist |-> odd_from_list \o from_pagelist,
          to_pagelist |-> odd_to_list \o to_pagelist]
    ELSE
    LET from_page == Head(from_pagelist)
        to_page   == Head(to_pagelist)
        from_odd  == ~(hpage_nr_pages(from_page) = 1
                         /\ hpage_nr_pages(from_page) = HPAGE_PMD_NR)
        to_odd    == ~(hpage_nr_pages(to_page) = 1
                         /\ hpage_nr_pages(to_page) = HPAGE_PMD_NR)
    IN  IF hpage_nr_pages(from_page) # hpage_nr_pages(to_page)
        THEN add_pages_to_exchange_list(
                 IF from_odd THEN Tail(from_pagelist) ELSE from_pagelist,
                 IF to_odd THEN Tail(to_pagelist) ELSE to_pagelist,
                 info_list,
                 IF from_odd THEN <<from_page>> \o odd_from_list
                 ELSE odd_from_list,
                 IF to_odd THEN <<to_page>> \o odd_to_list ELSE odd_to_list)
        ELSE add_pages_to_exchange_list(Tail(from_pagelist),
                 Tail(to_pagelist),
                 Append(info_list, [from_page |-> from_page,
                                    to_page |-> to_page]),
                 odd_from_list, odd_to_list)

\* memcg_size_node: the pages of the memcg on the LRU lists of a node
memcg_size_node(l, nid) ==
    IF nid = "from" THEN ListPages(l.from_inactive) + ListPages(l.from_active)
    ELSE ListPages(l.to_inactive) + ListPages(l.to_active)

\* the page-table entries of the huge pages of a list
HugeIds(list) ==
    LET huge == SelectSeq(list, LAMBDA d : d.huge)
    IN  [k \in 1..Len(huge) |-> huge[k].id]

\* the pages of a list are back on the LRU list they were taken from
LruPutback(l, list) ==
    [from_inactive |-> l.from_inactive \o
         SelectSeq(list, LAMBDA d : d.node = "from" /\ ~d.active),
     from_active   |-> l.from_active \o
         SelectSeq(list, LAMBDA d : d.node = "from" /\ d.active),
     to_inactive   |-> l.to_inactive \o
         SelectSeq(list, LAMBDA d : d.node = "to" /\ ~d.active),
     to_active     |-> l.to_active \o
         SelectSeq(list, LAMBDA d : d.node = "to" /\ d.active)]

\* the pages of a list have moved to node nid: alloc_new_node_page
LruArrive(l, list, nid) ==
    LruPutback(l, [k \in 1..Len(list) |-> [list[k] EXCEPT !.node = nid]])

MkLru(nid, active, nr_huge, nr_odd, nr_base) ==
    [k \in 1..(nr_huge + nr_odd + nr_base) |->
        IF k <= nr_huge
        THEN [node |-> nid, active |-> active, huge |-> TRUE,
              nr |-> HPAGE_PMD_NR,
              id |-> IF nid = "from" THEN FromPage(k) ELSE ToPage(k)]
        ELSE [node |-> nid, active |-> active, huge |-> FALSE,
              nr |-> IF k <= nr_huge + nr_odd THEN OddNr ELSE 1,
              id |-> k - nr_huge]]

\* MPOL_MF_MOVE is always set; the other bits do_mm_manage looks at
ManageFlags ==
    {{}, {"MOVE_ALL"}, {"MOVE_MT"}, {"EXCHANGE"}, {"EXCHANGE", "MOVE_ALL"},
     {"EXCHANGE", "MOVE_CONCUR"}, {"EXCHANGE", "MOVE_CONCUR", "MOVE_MT"}}

\* What the two nodes hold, as <<huge and base pages on the active list of
\* the from node, base pages on its inactive list, huge and base pages on
\* the inactive list of the to node, base pages on its active list, odd
\* pages on the active list of the from node and on the inactive list of the
\* to node>>: short lists in every combination, one long list of hot base
\* pages next to a to node that holds one cold huge page, four hot base
\* pages next to four cold ones, a hot page of one size next to a cold
\* page of another, and a hot odd page next to a cold odd page
Populations ==
    ((0..MaxHuge) \X {0, 2} \X {0, 1} \X (0..MaxHuge) \X {0, 2} \X {0, 2}
        \X {0} \X {0})
        \cup {<<0, ManyBase, 0, 1, 0, 2, 0, 0>>, <<0, 4, 0, 0, 4, 0, 0, 0>>,
              <<1, 0, 0, 0, 0, 0, 0, 1>>, <<0, 0, 0, 1, 0, 0, 1, 0>>,
              <<1, 2, 0, 0, 2, 2, 0, 1>>, <<0, 0, 0, 0, 0, 0, 1, 1>>}

InitManage ==
    /\ ListsIdle
    /\ ArrIdle
    /\ SwapIdle
    /\ callers = <<>>
    /\ \E n \in Populations :
         /\ lru = [from_inactive |-> MkLru("from", FALSE, 0, 0, n[3]),
                   from_active   |-> MkLru("from", TRUE, n[1], n[7], n[2]),
                   to_inactive   |-> MkLru("to", FALSE, n[4], n[8], n[5]),
                   to_active     |-> MkLru("to", TRUE, 0, 0, n[6])]
         /\ \E swapcached \in
                 {{}} \cup (IF n[1] > 0 THEN {{FromPage(1)}} ELSE {}) :
              page = [p \in 1..(2 * MaxHuge) |->
                        [MkPage("thp", p) EXCEPT
                           !.isolated = FALSE,
                           !.flags = IF p \in swapcached
                                     THEN @ \cup {"swapcache"} ELSE @]]
    /\ page0 = page
    /\ ptes = [p \in 1..(2 * MaxHuge) |-> MkPte("thp", p)]
    /\ \E flags \in ManageFlags, nr_pages \in {1, 600, ULONG_MAX},
          unlimited \in BOOLEAN,
          headroom \in {h \in {-2, 0, 1, 600} :
                           memcg_size_node(lru, "to") + h >= 0} :
         /\ unlimited => headroom = 0
         /\ mmp = [flags |-> flags,
                   nr_pages |-> nr_pages,
                   max_nr_pages_to_node |->
                       IF unlimited THEN ULONG_MAX
                       ELSE memcg_size_node(lru, "to") + headroom,
                   nr_pages_to_node |-> memcg_size_node(lru, "to"),
                   nr_free_pages_to_node |-> 0,
                   nr_isolated_from_base_pages |-> 0,
                   nr_isolated_from_huge_pages |-> 0,
                   nr_isolated_to_base_pages |-> ULONG_MAX,
                   nr_isolated_to_huge_pages |-> ULONG_MAX,
                   info_list_huge_page_size |-> 0,
                   nr_pages_clamped |-> 0,
                   from_action |-> "none",
                   nr_isolated_from_pages |-> 0,
                   nr_pages_asked_to |-> 0,
                   added_size |-> 0]
         /\ cmode = {"SYNC"} \cup (IF "MOVE_MT" \in flags THEN {"MT"}
                                    ELSE {})
    /\ mlist = [from_base |-> <<>>, from_huge |-> <<>>,
                to_base |-> <<>>, to_huge |-> <<>>]
    /\ moved = [in |-> 0, out |-> 0]
    /\ rc = 0
    /\ faults = MaxFaults
    /\ pc = "do_mm_manage"

\* A variant of do_mm_manage_from_action that widens the selection when the
\* headroom is above the number of hot pages of the from node
from_action_by_hot_pages(flags, nr_pages, nr_free_pages_to_node, nr_hot) ==
    IF \/ "MOVE_ALL" \in flags
       \/ nr_free_pages_to_node > nr_hot
    THEN "ISOLATE_HOT_AND_COLD_PAGES" ELSE "ISOLATE_HOT_PAGES"

\* from_action of do_mm_manage: its initial value and the assignment under
\* "if (nr_pages != ULONG_MAX && nr_free_pages_to_node > 0 && nr_pages <
\* nr_free_pages_to_node)"; nr_hot, the hot pages of the from node, is not
\* looked at
do_mm_manage_from_action(flags, nr_pages, nr_free_pages_to_node, nr_hot) ==
    IF \/ "MOVE_ALL" \in flags
       \/ /\ nr_pages # ULONG_MAX
          /\ nr_free_pages_to_node > 0
          /\ nr_pages < ToULong(nr_free_pages_to_node)
    THEN "ISOLATE_HOT_AND_COLD_PAGES" ELSE "ISOLATE_HOT_PAGES"

\* do_mm_manage up to the isolation of pages on both nodes.  The fields
\* nr_pages_clamped, from_action, nr_isolated_from_pages and
\* nr_pages_asked_to of mmp keep nr_pages after line 360, from_action, the
\* result of the first isolate_pages_from_lru_list and the nr_pages given
\* to the second (0 where it is not called).
do_mm_manage_isolate ==
    /\ pc = "do_mm_manage"
    /\ LET max_nr_pages_to_node == mmp.max_nr_pages_to_node
           nr_pages_to_node     == memcg_size_node(lru, "to")
           nr_pages_from_node   == memcg_size_node(lru, "from")
           nr_free_pages_to_node ==
               ToLong(max_nr_pages_to_node - nr_pages_to_node)
           nr_pages == Min(max_nr_pages_to_node, mmp.nr_pages)
           from_action ==
               do_mm_manage_from_action(mmp.flags, nr_pages,
                   nr_free_pages_to_node, ListPages(lru.from_active))
           f == isolate_pages_from_lru_list(lru.from_inactive,
                    lru.from_active, nr_pages_from_node, nr_pages,
                    from_action)
           nr_isolated_from_pages == f.nr_all_taken
           to_too ==
               /\ max_nr_pages_to_node # ULONG_MAX
               /\ \/ nr_free_pages_to_node < 0
                  \/ ToULong(nr_free_pages_to_node) < nr_isolated_from_pages
           t == IF to_too
                THEN isolate_pages_from_lru_list(lru.to_inactive,
                         lru.to_active, nr_pages_to_node,
                         ToULong(nr_isolated_from_pages
                                     - nr_free_pages_to_node),
                         IF "MOVE_ALL" \in mmp.flags
                         THEN "ISOLATE_HOT_AND_COLD_PAGES"
                         ELSE "ISOLATE_COLD_PAGES")
                ELSE [inactive |-> lru.to_inactive, active |-> lru.to_active,
                      base |-> <<>>, huge |-> <<>>, nr_all_taken |-> 0,
                      nr_taken_base_page |-> ULONG_MAX,
                      nr_taken_huge_page |-> ULONG_MAX]
           taken == Range(HugeIds(f.huge)) \cup Range(HugeIds(t.huge))
       IN  /\ mmp' = [mmp EXCEPT
                        !.nr_free_pages_to_node = nr_free_pages_to_node,
                        !.nr_pages_clamped = nr_pages,
                        !.from_action = from_action,
                        !.nr_isolated_from_pages = nr_isolated_from_pages,
                        !.nr_pages_asked_to =
                            IF to_too
                            THEN ToULong(nr_isolated_from_pages
                                             - nr_free_pages_to_node)
                            ELSE 0,
                        !.nr_isolated_from_base_pages = f.nr_taken_base_page,
                        !.nr_isolated_from_huge_pages = f.nr_taken_huge_page,
                        !.nr_isolated_to_base_pages = t.nr_taken_base_page,
                        !.nr_isolated_to_huge_pages = t.nr_taken_huge_page]
           /\ lru' = [from_inactive |-> f.inactive, from_active |-> f.active,
                      to_inactive |-> t.inactive, to_active |-> t.active]
           /\ mlist' = [from_base |-> f.base, from_huge |-> f.huge,
                        to_base |-> t.base, to_huge |-> t.huge]
           /\ page' = [p \in DOMAIN page |->
                         IF p \in taken THEN isolate_lru_page(page, p)[p]
                         ELSE page[p]]
           /\ pc' = IF ~to_too THEN "mm_putback_overflow"
                    ELSE IF "EXCHANGE" \in mmp.flags THEN "mm_exchange"
                    ELSE "mm_migrate_out"
    /\ UNCHANGED <<page0, ptes, cmode, listVars, rc, faults, histVars, ret_pc,
                   arrVars, swapVars, moved, callers>>

\* "if (migrate_exchange_pages)": the pairs are built and handed to
\* exchange_pages_concur or exchange_pages.  kzalloc returns ZERO_SIZE_PTR
\* for no pairs and may return NULL otherwise; the NULL is not looked at and
\* the first pair is written through it
do_mm_manage_exchange ==
    /\ pc = "mm_exchange"
    /\ LET info_list_huge_page_size ==
               Min(mmp.nr_isolated_from_huge_pages,
                   mmp.nr_isolated_to_huge_pages) \div HPAGE_PMD_NR
           a == add_pages_to_exchange_list(mlist.from_huge, mlist.to_huge,
                                           <<>>, <<>>, <<>>)
       IN  \E nomem \in
               (IF info_list_huge_page_size > 0 /\ faults > 0
                THEN BOOLEAN ELSE {FALSE}) :
             IF a.info_list_index > info_list_huge_page_size
             THEN \* "one_pair->from_page = from_page;" beyond the end of
                  \* info_list; no record was allocated and one_pair is
                  \* ZERO_SIZE_PTR
                  /\ ~nomem
                  /\ pc' = "oops"
                  /\ mmp' = [mmp EXCEPT !.info_list_huge_page_size =
                                            info_list_huge_page_size,
                                        !.added_size = a.info_list_index]
                  /\ UNCHANGED <<faults, inj, mlist, pairs, exchange_list,
                                 todo, retry, xpass, ret_pc>>
             ELSE IF nomem /\ a.info_list_index > 0
             THEN /\ pc' = "oops"
                  /\ faults' = faults - 1
                  /\ inj' = inj \cup {<<"nomem", 0, -1>>}
                  /\ UNCHANGED <<mmp, mlist, pairs, exchange_list, todo,
                                 retry, xpass, ret_pc>>
             ELSE /\ mmp' = [mmp EXCEPT !.info_list_huge_page_size =
                                            info_list_huge_page_size,
                                        !.added_size = a.info_list_index]
                  /\ mlist' = [mlist EXCEPT !.from_huge = a.from_pagelist,
                                            !.to_huge = a.to_pagelist]
                  /\ pairs' = [i \in 1..a.info_list_index |->
                                 [from_page |-> a.info_list[i].from_page.id,
                                  to_page |-> a.info_list[i].to_page.id,
                                  from_anon_vma |-> 0, to_anon_vma |-> 0]]
                  /\ exchange_list' = [i \in 1..a.info_list_index |-> i]
                  /\ xpass' = [i \in 1..a.info_list_index |-> -1]
                  /\ ret_pc' = "mm_exchanged"
                  /\ IF "MOVE_CONCUR" \in mmp.flags
                     THEN /\ pc' = "concur_pass"
                          /\ todo' = <<>>
                          /\ retry' = 1
                     ELSE /\ pc' = "exchange_pages"
                          /\ todo' = exchange_list'
                          /\ retry' = 0
                  /\ UNCHANGED <<faults, inj>>
    /\ UNCHANGED <<pageVars, cmode, unmapped_list, serialized_list, pass,
                   nr_failed, rc, last, arrVars, swapVars, lru, moved,
                   callers>>

\* the exchange has returned, its result is dropped: "kfree(info_list);" and
\* the pairs are taken off the count of pages isolated on the to node
do_mm_manage_exchanged ==
    /\ pc = "mm_exchanged"
    /\ mmp' = [mmp EXCEPT !.nr_isolated_to_huge_pages =
                 ToULong(@ - mmp.info_list_huge_page_size * HPAGE_PMD_NR)]
    /\ pc' = "mm_migrate_out"
    /\ UNCHANGED <<pageVars, cmode, listVars, rc, faults, histVars, ret_pc,
                   arrVars, swapVars, lru, mlist, moved, callers>>

\* "migrate_out:" the pages isolated on the to node go to the from node
do_mm_manage_migrate_out ==
    /\ pc = "mm_migrate_out"
    /\ \E fb \in 0..Min(1, Len(mlist.to_base)),
          fh \in 0..Min(1, Len(mlist.to_huge)) :
        /\ fb + fh <= faults
        /\ LET b == migrate_to_node(mlist.to_base, fb)
               h == migrate_to_node(mlist.to_huge, fh)
           IN  /\ mmp' = [mmp EXCEPT
                            !.nr_isolated_to_base_pages = ToULong(@ - b.num),
                            !.nr_isolated_to_huge_pages = ToULong(@ - h.num)]
               /\ lru' = LruArrive(LruPutback(lru, b.putback \o h.putback),
                                   b.migrated \o h.migrated, "from")
               /\ page' = putback_movable_pages(page,
                              HugeIds(mlist.to_huge))
               /\ moved' = [moved EXCEPT !.out =
                              @ + ListPages(b.migrated \o h.migrated)]
        /\ faults' = faults - fb - fh
        /\ inj' = inj \cup {<<"migrate", 0, -1>> : x \in 1..(fb + fh)}
    /\ mlist' = [mlist EXCEPT !.to_base = <<>>, !.to_huge = <<>>]
    /\ pc' = "mm_putback_overflow"
    /\ UNCHANGED <<page0, ptes, cmode, pairs, exchange_list, unmapped_list,
                   serialized_list, todo, pass, retry, nr_failed, rc, last,
                   xpass, ret_pc, arrVars, swapVars, callers>>

\* A variant of do_mm_manage_putback_overflow that puts nothing back
putback_overflow_skipped ==
    /\ pc = "mm_putback_overflow"
    /\ pc' = "mm_migrate_in"
    /\ UNCHANGED <<pageVars, cmode, listVars, rc, faults, histVars, ret_pc,
                   arrVars, swapVars, mmp, lru, mlist, moved, callers>>

\* "if (nr_isolated_to_base_pages != ULONG_MAX && nr_isolated_to_huge_pages
\* != ULONG_MAX) putback_overflow_pages(...)": what is over goes back to the
\* LRU lists of the from node
do_mm_manage_putback_overflow ==
    /\ pc = "mm_putback_overflow"
    /\ LET o == IF /\ mmp.nr_isolated_to_base_pages # ULONG_MAX
                   /\ mmp.nr_isolated_to_huge_pages # ULONG_MAX
                THEN putback_overflow_pages(mmp.nr_isolated_to_base_pages,
                         mmp.nr_isolated_to_huge_pages,
                         mmp.nr_free_pages_to_node,
                         mlist.from_base, mlist.from_huge)
                ELSE [base |-> mlist.from_base, huge |-> mlist.from_huge,
                      putback |-> <<>>]
       IN  /\ mlist' = [mlist EXCEPT !.from_base = o.base,
                                     !.from_huge = o.huge]
           /\ lru' = LruPutback(lru, o.putback)
           /\ page' = putback_movable_pages(page, HugeIds(o.putback))
    /\ pc' = "mm_migrate_in"
    /\ UNCHANGED <<page0, ptes, cmode, listVars, rc, faults, histVars, ret_pc,
                   arrVars, swapVars, mmp, moved, callers>>

\* the pages isolated on the from node go to the to node, and "return err;"
do_mm_manage_migrate_in ==
    /\ pc = "mm_migrate_in"
    /\ \E fb \in 0..Min(1, Len(mlist.from_base)),
          fh \in 0..Min(1, Len(mlist.from_huge)) :
        /\ fb + fh <= faults
        /\ LET b == migrate_to_node(mlist.from_base, fb)
               h == migrate_to_node(mlist.from_huge, fh)
           IN  /\ mmp' = [mmp EXCEPT
                            !.nr_isolated_from_base_pages = ToULong(@ - b.num),
                            !.nr_isolated_from_huge_pages = ToULong(@ - h.num)]
               /\ lru' = LruArrive(LruPutback(lru, b.putback \o h.putback),
                                   b.migrated \o h.migrated, "to")
               /\ moved' = [moved EXCEPT !.in =
                              @ + ListPages(b.migrated \o h.migrated)]
        /\ faults' = faults - fb - fh
        /\ inj' = inj \cup {<<"migrate", 1, -1>> : x \in 1..(fb + fh)}
    /\ page' = putback_movable_pages(page, HugeIds(mlist.from_huge))
    /\ mlist' = [mlist EXCEPT !.from_base = <<>>, !.from_huge = <<>>]
    /\ rc' = 0
    /\ pc' = "done"
    /\ UNCHANGED <<page0, ptes, cmode, pairs, exchange_list, unmapped_list,
                   serialized_list, todo, pass, retry, nr_failed, last,
                   xpass, ret_pc, arrVars, swapVars, callers>>

NextManage ==
    \/ do_mm_manage_isolate
    \/ do_mm_manage_exchange
    \/ do_mm_manage_exchanged
    \/ do_mm_manage_migrate_out
    \/ do_mm_manage_putback_overflow
    \/ do_mm_manage_migrate_in
    \/ NextSeq
    \/ NextConcur

SpecManage == InitManage /\ [][NextManage]_vars


(***************************************************************************)
(* Claims about the rebalancer (SpecManage).                               *)
(***************************************************************************)
\* the pages the memcg has on the to node
Occupancy == mmp.nr_pages_to_node - moved.out + moved.in

\* C4: when do_mm_manage has returned, the to node holds no more pages of
\* the memcg than its ceiling max_nr_base_pages
C4_CapacityHolds ==
    pc = "done" => Occupancy <= mmp.max_nr_pages_to_node

\* the same for a call that could reach the ceiling: it moved nothing in
\* beyond the room it found and the room it made
MovedInWithinRoom ==
    pc = "done" /\ mmp.max_nr_pages_to_node # ULONG_MAX =>
        \/ moved.in = 0
        \/ moved.in <= (mmp.max_nr_pages_to_node - mmp.nr_pages_to_node)
                          + moved.out

\* and it holds of every call that finds the to node at or below its ceiling
CapacityHoldsWithRoom ==
    pc = "done" /\ mmp.nr_pages_to_node <= mmp.max_nr_pages_to_node =>
        Occupancy <= mmp.max_nr_pages_to_node

\* C10: when do_mm_manage has returned, no page is still isolated: its four
\* lists are empty and every huge page is back on an LRU list
C10_NothingLeftIsolated ==
    pc = "done" =>
        /\ \A p \in DOMAIN page : ~page[p].isolated
        /\ mlist.from_base = <<>> /\ mlist.from_huge = <<>>
        /\ mlist.to_base = <<>> /\ mlist.to_huge = <<>>

\* it holds of every call that does not exchange pages concurrently
NothingLeftIsolatedSerial ==
    pc = "done" /\ ~({"EXCHANGE", "MOVE_CONCUR"} \subseteq mmp.flags) =>
        \A p \in DOMAIN page : ~page[p].isolated

\* a call that selects hot pages only and finds the to node with a headroom
\* of 0 or more that is smaller than the budget nr_pages
HotOnlyShortHeadroom ==
    /\ pc # "do_mm_manage"
    /\ "MOVE_ALL" \notin mmp.flags
    /\ mmp.max_nr_pages_to_node # ULONG_MAX
    /\ mmp.max_nr_pages_to_node >= mmp.nr_pages_to_node
    /\ mmp.max_nr_pages_to_node - mmp.nr_pages_to_node < mmp.nr_pages

C32_ClampedToBoth ==
    [][pc = "do_mm_manage" =>
          /\ mmp'.nr_pages_clamped <= mmp.nr_pages
          /\ mmp'.nr_pages_clamped <= mmp.max_nr_pages_to_node
          /\ mmp'.nr_pages_clamped <= memcg_size_node(lru, "from")]_vars

\* C33 as stated: without MPOL_MF_MOVE_ALL, hot and cold pages of the from
\* node are candidates exactly when the headroom of the to node is above the
\* number of hot pages of the from node, and else hot pages only.
C33_Original ==
    [][(pc = "do_mm_manage" /\ "MOVE_ALL" \notin mmp.flags) =>
          (mmp'.from_action = "ISOLATE_HOT_AND_COLD_PAGES"
              <=> mmp'.nr_free_pages_to_node > ListPages(lru.from_active))]_vars

\* C33 amended: without MPOL_MF_MOVE_ALL, hot and cold pages of the from
\* node are candidates exactly when the page count asked for, clamped to
\* the ceiling of the to node, is not ULONG_MAX and is below the headroom of
\* the to node; in every other case only hot pages are isolated on the from
\* node.
C33_WidenedBelowHeadroom ==
    [][(pc = "do_mm_manage" /\ "MOVE_ALL" \notin mmp.flags) =>
          LET nr_pages == Min(mmp.max_nr_pages_to_node, mmp.nr_pages)
              headroom == mmp'.nr_free_pages_to_node
              widened  == /\ nr_pages # ULONG_MAX
                          /\ headroom > 0
                          /\ nr_pages < headroom
              isolated == Range(mlist'.from_base) \cup Range(mlist'.from_huge)
          IN  /\ headroom =
                    ToLong(mmp.max_nr_pages_to_node - memcg_size_node(lru, "to"))
              /\ mmp'.from_action = "ISOLATE_HOT_AND_COLD_PAGES" <=> widened
              /\ ~widened =>
                    /\ \A d \in isolated : d.active
                    /\ lru'.from_inactive = lru.from_inactive
              /\ (widened /\ lru.from_inactive # <<>> /\ nr_pages > 0) =>
                    \E d \in isolated : ~d.active]_vars

\* the selection was widened and a cold page of the from node is isolated
C33_Witness ==
    /\ pc # "do_mm_manage"
    /\ "MOVE_ALL" \notin mmp.flags
    /\ mmp.from_action = "ISOLATE_HOT_AND_COLD_PAGES"
    /\ \E k \in DOMAIN mlist.from_base : ~mlist.from_base[k].active

\* C34: do_mm_manage isolates pages on the to node exactly when the ceiling
\* of the to node is finite and its headroom is negative or below the number
\* of pages isolated on the from node; it then asks for that number less
\* the headroom, and gets cold pages only unless MPOL_MF_MOVE_ALL is set, as
\* many as asked for unless the lists it may take from run out.
C34_ToNodeIsolation ==
    [][pc = "do_mm_manage" =>
          LET headroom == mmp'.nr_free_pages_to_node
              from_pages == mmp'.nr_isolated_from_pages
              to_pages == Range(mlist'.to_base) \cup Range(mlist'.to_huge)
              called == /\ mmp'.nr_isolated_to_base_pages # ULONG_MAX
                        /\ mmp'.nr_isolated_to_huge_pages # ULONG_MAX
          IN  /\ from_pages = ListPages(mlist'.from_base)
                                  + ListPages(mlist'.from_huge)
              /\ called <=>
                    /\ mmp.max_nr_pages_to_node # ULONG_MAX
                    /\ (headroom < 0 \/ headroom < from_pages)
              /\ ~called =>
                    /\ to_pages = {}
                    /\ lru'.to_inactive = lru.to_inactive
                    /\ lru'.to_active = lru.to_active
              /\ called =>
                    /\ mmp'.nr_pages_asked_to = from_pages - headroom
                    /\ "MOVE_ALL" \notin mmp.flags =>
                          /\ \A d \in to_pages : ~d.active
                          /\ lru'.to_active = lru.to_active
                    /\ \/ ListPages(mlist'.to_base) + ListPages(mlist'.to_huge)
                             >= mmp'.nr_pages_asked_to
                       \/ lru'.to_inactive = <<>>
                    /\ \A d \in to_pages : d.node = "to"]_vars

\* cold pages of the to node are isolated and its hot pages are left
C34_Witness ==
    /\ pc \in {"mm_exchange", "mm_migrate_out"}
    /\ "MOVE_ALL" \notin mmp.flags
    /\ mmp.nr_pages_asked_to > 0
    /\ mlist.to_base # <<>>
    /\ lru.to_active # <<>>

\* C35: in one call of do_mm_manage the pages isolated on the to node are
\* migrated to the from node, the list of base pages before the list of huge
\* pages, and both lists are done with before a page isolated on the from
\* node is migrated to the to node; putback_overflow_pages works on the
\* lists of the from node after the first migration and before the second.
C35_OutThenPutbackThenIn ==
    [][/\ moved'.out # moved.out => pc = "mm_migrate_out" /\ moved.in = 0
       /\ moved'.in # moved.in =>
             /\ pc = "mm_migrate_in"
             /\ mlist.to_base = <<>> /\ mlist.to_huge = <<>>
       /\ pc = "mm_migrate_out" =>
             /\ pc' = "mm_putback_overflow"
             /\ mlist'.to_base = <<>> /\ mlist'.to_huge = <<>>
             /\ mmp'.nr_isolated_to_base_pages # ULONG_MAX
             /\ mmp'.nr_isolated_to_huge_pages # ULONG_MAX
             /\ \A l \in {"from_inactive", "from_active"} :
                   \A i, j \in (Len(lru[l]) + 1)..Len(lru'[l]) :
                       (lru'[l][i].nr # 1 /\ lru'[l][j].nr = 1) => j < i
       /\ pc' = "mm_migrate_in" => pc = "mm_putback_overflow"
       /\ pc = "mm_putback_overflow" =>
             /\ pc' = "mm_migrate_in"
             /\ moved' = moved
             /\ mlist.to_base = <<>> /\ mlist.to_huge = <<>>
             /\ (/\ mmp.nr_isolated_to_base_pages # ULONG_MAX
                 /\ mmp.nr_isolated_to_huge_pages # ULONG_MAX) =>
                   LET o == putback_overflow_pages(
                                mmp.nr_isolated_to_base_pages,
                                mmp.nr_isolated_to_huge_pages,
                                mmp.nr_free_pages_to_node,
                                mlist.from_base, mlist.from_huge)
                   IN  /\ mlist'.from_base = o.base
                       /\ mlist'.from_huge = o.huge
                       /\ \A k \in DOMAIN o.putback :
                             o.putback[k] \in Range(lru'.from_inactive)
                                             \cup Range(lru'.from_active)]_vars

\* C40: the pairs add_pages_to_exchange_list writes are at most the
\* info_list_size records that do_mm_manage allocated.
C40_PairsWithinInfoList ==
    mmp.added_size <= mmp.info_list_huge_page_size

\* pages went to the from node, then pages of the from node were put back,
\* and the rest is about to go to the to node
C35_Witness ==
    /\ pc = "mm_migrate_in"
    /\ moved.out > 0
    /\ moved.in = 0
    /\ mlist.from_base # <<>>
    /\ ListPages(mlist.from_base) + ListPages(mlist.from_huge)
          < mmp.nr_isolated_from_pages


(***************************************************************************)
(* _putback_overflow_pages on its own (SpecPutback): one call on a list as *)
(* isolate_lru_pages builds it, base pages only or huge pages followed by  *)
(* the pages of odd_list, with a budget max_nr_pages.  mmp is              *)
(* [max_nr_pages, page_list], the arguments; mlist.from_base is page_list  *)
(* as the call leaves it, lru.from_active the pages it puts back.          *)
(***************************************************************************)
MaxPutbackLen == 4
MaxBudget == 2100

\* the lists isolate_lru_pages builds, of at most MaxPutbackLen pages
PutbackLists ==
    {MkLru("from", TRUE, 0, 0, n) : n \in 0..MaxPutbackLen}
    \cup {MkLru("from", TRUE, hn[1], hn[2], 0) :
             hn \in {x \in (0..MaxPutbackLen) \X (0..MaxPutbackLen) :
                        x[1] + x[2] <= MaxPutbackLen}}

InitPutback ==
    /\ ListsIdle
    /\ ArrIdle
    /\ SwapIdle
    /\ callers = <<>>
    /\ page = <<>>
    /\ page0 = <<>>
    /\ ptes = <<>>
    /\ cmode = {"SYNC"}
    /\ \E l \in PutbackLists, max_nr_pages \in (0..MaxBudget) \cup {ULONG_MAX} :
         /\ mmp = [max_nr_pages |-> max_nr_pages, page_list |-> l]
         /\ mlist = [from_base |-> l, from_huge |-> <<>>,
                     to_base |-> <<>>, to_huge |-> <<>>]
    /\ lru = [from_inactive |-> <<>>, from_active |-> <<>>,
              to_inactive |-> <<>>, to_active |-> <<>>]
    /\ moved = [in |-> 0, out |-> 0]
    /\ rc = 0
    /\ faults = 0
    /\ pc = "_putback_overflow_pages"

\* the call: page_list is cut, the rest goes through putback_movable_pages
\* to the LRU list it came from, the int returned is in rc
putback_overflow_call ==
    /\ pc = "_putback_overflow_pages"
    /\ LET r == _putback_overflow_pages(mmp.max_nr_pages, mlist.from_base)
       IN  /\ mlist' = [mlist EXCEPT !.from_base = r.keep]
           /\ lru' = LruPutback(lru, r.putback)
           /\ rc' = r.ret
    /\ pc' = "done"
    /\ UNCHANGED <<pageVars, cmode, listVars, faults, histVars, ret_pc,
                   arrVars, swapVars, mmp, moved, callers>>

NextPutback == putback_overflow_call

SpecPutback == InitPutback /\ [][NextPutback]_vars

\* C36: _putback_overflow_pages leaves on the list a prefix of it whose
\* pages add up to at most max_nr_pages, puts the rest back, and puts the
\* whole list back when max_nr_pages is at most twice the size of the first
\* page; so for a list of pages of one size and for a list of huge pages
\* followed by compound pages of another size.
C36_PrefixWithinBudget ==
    pc = "done" =>
        LET kept == mlist.from_base
        IN  /\ kept = SubSeq(mmp.page_list, 1, Len(kept))
            /\ lru.from_active =
                  SubSeq(mmp.page_list, Len(kept) + 1, Len(mmp.page_list))
            /\ ListPages(kept) <= mmp.max_nr_pages
            /\ (/\ mmp.page_list # <<>>
                /\ mmp.max_nr_pages <= 2 * hpage_nr_pages(mmp.page_list[1])) =>
                  kept = <<>>

\* a list of huge pages and odd pages was cut: huge pages are kept, the odd
\* pages are put back
C36_Witness ==
    /\ pc = "done"
    /\ mlist.from_base # <<>>
    /\ mlist.from_base[1].nr = HPAGE_PMD_NR
    /\ \E k \in DOMAIN lru.from_active : lru.from_active[k].nr = OddNr


(***************************************************************************)
(* mm_manage(2), the system call (mm/memory_manage.c), called by several   *)
(* threads for one target mm.  A call is given by what its arguments and   *)
(* the environment make of its checks:                                     *)
(*   scratch  NODEMASK_SCRATCH could be allocated                          *)
(*   nodes    get_nodes could read both node masks                         *)
(*   flags    the MPOL_MF_ bits, "OTHER" for a bit outside the mask        *)
(*   task     "none" no such pid, "foreign" no right to it, "denied" the   *)
(*            security module objects, "nomm" it has no mm, "ok"           *)
(***************************************************************************)
ESRCH == 3
EPERM == 1
EINVAL == 22
NumCallers == 2

SysCalls ==
    {[scratch |-> FALSE, nodes |-> TRUE, flags |-> {"MOVE"}, task |-> "ok"],
     [scratch |-> TRUE, nodes |-> FALSE, flags |-> {"MOVE"}, task |-> "ok"]}
    \cup [scratch : {TRUE}, nodes : {TRUE},
          flags : {{"MOVE", "OTHER"}}, task : {"ok"}]
    \cup [scratch : {TRUE}, nodes : {TRUE}, flags : {{"MOVE"}},
          task : {"none", "foreign", "denied", "nomm"}]
    \cup [scratch : {TRUE}, nodes : {TRUE},
          flags : SUBSET {"MOVE", "SHRINK_LISTS"}, task : {"ok"}]

\* mm_manage up to get_task_mm: the error it leaves with, 0 when it goes on
mm_manage_checks(a) ==
    IF ~a.scratch THEN -ENOMEM
    ELSE IF ~a.nodes THEN -EFAULT
    ELSE IF a.flags \ {"MOVE", "MOVE_MT", "MOVE_DMA", "MOVE_CONCUR",
                       "EXCHANGE", "SHRINK_LISTS", "MOVE_ALL"} # {}
    THEN -EINVAL
    ELSE IF a.task = "none" THEN -ESRCH
    ELSE IF a.task = "foreign" THEN -EPERM
    ELSE IF a.task = "denied" THEN -EACCES
    ELSE IF a.task = "nomm" THEN -EINVAL
    ELSE 0

InitSyscall ==
    /\ page = <<>>
    /\ page0 = <<>>
    /\ ptes = <<>>
    /\ cmode = {}
    /\ ListsIdle
    /\ ArrIdle
    /\ SwapIdle
    /\ ManageIdle
    /\ rc = 0
    /\ faults = 0
    /\ pc = "mm_manage"
    /\ callers \in [1..NumCallers ->
                      [pc : {"mm_manage"}, arg : SysCalls, err : {0},
                       mm : {FALSE}]]

\* the call of thread c from its entry to the first thing it does with the
\* mm, or to its return
mm_manage_enter(c) ==
    /\ callers[c].pc = "mm_manage"
    /\ LET a   == callers[c].arg
           err == mm_manage_checks(a)
       IN  callers' = [callers EXCEPT ![c] =
               IF err # 0 THEN [@ EXCEPT !.pc = "returned", !.err = err]
               ELSE IF "SHRINK_LISTS" \in a.flags
               THEN [@ EXCEPT !.pc = "shrink_lists", !.mm = TRUE]
               ELSE IF "MOVE" \in a.flags
               THEN [@ EXCEPT !.pc = "do_mm_manage", !.mm = TRUE]
               ELSE [@ EXCEPT !.pc = "returned", !.err = 0]]
    /\ UNCHANGED <<pc, pageVars, cmode, listVars, rc, faults, histVars,
                   ret_pc, arrVars, swapVars, mmVars>>

\* shrink_lists has run for thread c
mm_manage_shrink_lists(c) ==
    /\ callers[c].pc = "shrink_lists"
    /\ callers' = [callers EXCEPT ![c] =
           IF "MOVE" \in callers[c].arg.flags
           THEN [@ EXCEPT !.pc = "do_mm_manage"]
           ELSE [@ EXCEPT !.pc = "returned", !.err = 0, !.mm = FALSE]]
    /\ UNCHANGED <<pc, pageVars, cmode, listVars, rc, faults, histVars,
                   ret_pc, arrVars, swapVars, mmVars>>

\* do_mm_manage has run for thread c: "err = do_mm_manage(...); mmput(mm);"
mm_manage_do_mm_manage(c) ==
    /\ callers[c].pc = "do_mm_manage"
    /\ callers' = [callers EXCEPT ![c] =
                     [@ EXCEPT !.pc = "returned", !.err = 0, !.mm = FALSE]]
    /\ UNCHANGED <<pc, pageVars, cmode, listVars, rc, faults, histVars,
                   ret_pc, arrVars, swapVars, mmVars>>

NextSyscall ==
    \E c \in 1..NumCallers :
        \/ mm_manage_enter(c)
        \/ mm_manage_shrink_lists(c)
        \/ mm_manage_do_mm_manage(c)

SpecSyscall == InitSyscall /\ [][NextSyscall]_vars


(***************************************************************************)
(* Claims about the system call (SpecSyscall).                             *)
(***************************************************************************)
\* the threads that are in their balancing pass
Balancing == {c \in 1..NumCallers : callers[c].pc = "do_mm_manage"}

\* C9: two calls for one mm never run their balancing pass at the same
\* time, and a call that has found a pass running returns an error
C9_OnePassAtATime ==
    /\ Cardinality(Balancing) <= 1
    /\ \A c \in 1..NumCallers :
         callers[c].pc = "returned" /\ Balancing # {}
             /\ "MOVE" \in callers[c].arg.flags
           => callers[c].err # 0

\* a call is turned away only by its own arguments
RejectedOnlyByChecks ==
    \A c \in 1..NumCallers :
        callers[c].pc = "returned" =>
            callers[c].err = mm_manage_checks(callers[c].arg)

=============================================================================
